---- MODULE Spec2Model ----
(***************************************************************************)
(* A model of the ray tracer's core: the AABB slab test, Cube::ray_intersect,*)
(* BVHNode::build / BVHNode::intersect (bvh.rs, cube.rs), the row-band      *)
(* scheduler render / render_row_range and the recursive shader cast_ray    *)
(* (main.rs), refract (snell.rs) and vector3_to_color (material.rs).        *)
(*                                                                         *)
(* Scalars.  An f32 is modelled by an integer counting units of 1e-4, or by *)
(* one of the three IEEE-754 specials PInf, NInf, NaN.  Every input is an   *)
(* exact multiple of the unit and every direction component is -1, 0 or 1,  *)
(* so each product and sum below is exact; only the specials need care:     *)
(* 1/0 = +inf, 0 * inf = NaN, inf - inf = NaN, and every ordered comparison *)
(* with a NaN operand is false.                                             *)
(***************************************************************************)
EXTENDS Integers, Sequences, FiniteSets, TLC

\* ------------------------------------------------------------------------
\* IEEE-754 scalars
\* ------------------------------------------------------------------------
PInf == 10^6
NInf == -(10^6)
NaN  == 2 * 10^6

\* the one element of a singleton: Only({e(u) : u \in {x}}) is e(x) with x
\* evaluated once, which keeps TLC's work linear where operators nest
Only(S) == CHOOSE x \in S : TRUE

IsFinite(a) == a # PInf /\ a # NInf /\ a # NaN

FNeg(a) == IF a = NaN THEN NaN ELSE -a

FSign(a) == IF a > 0 THEN 1 ELSE IF a < 0 THEN -1 ELSE 0

\* a * b where at least one operand is dimensionless (a direction component,
\* its reciprocal, or a ray parameter times a direction component)
FMul(a, b) ==
    IF a = NaN \/ b = NaN THEN NaN
    ELSE IF IsFinite(a) /\ IsFinite(b) THEN a * b
    ELSE IF a = 0 \/ b = 0 THEN NaN
    ELSE IF FSign(a) * FSign(b) > 0 THEN PInf ELSE NInf

FAdd(a, b) ==
    IF a = NaN \/ b = NaN THEN NaN
    ELSE IF IsFinite(a) /\ IsFinite(b) THEN a + b
    ELSE IF IsFinite(a) THEN b
    ELSE IF IsFinite(b) THEN a
    ELSE IF a = b THEN a ELSE NaN

FSub(a, b) == FAdd(a, FNeg(b))

\* ordered comparisons: false as soon as an operand is NaN
FGt(a, b) == a # NaN /\ b # NaN /\ a > b
FLt(a, b) == a # NaN /\ b # NaN /\ a < b

FAbs(a) == IF a = NaN THEN NaN ELSE IF a < 0 THEN -a ELSE a

\* 1.0 / d for a direction component d in {-1, 0, 1}
FInv(d) == IF d = 0 THEN PInf ELSE d

\* f32::min and f32::max on finite operands (AABB::merge)
FMin(a, b) == IF a < b THEN a ELSE b
FMax(a, b) == IF a > b THEN a ELSE b

\* ------------------------------------------------------------------------
\* Vector3
\* ------------------------------------------------------------------------
Vec(x, y, z) == <<x, y, z>>
VZero == <<0, 0, 0>>
InvDir(d) == <<FInv(d[1]), FInv(d[2]), FInv(d[3])>>

\* ------------------------------------------------------------------------
\* The program's numeric constants, in units of 1e-4
\* ------------------------------------------------------------------------
HitEps == 10
NormalEps == 1
ORIGIN_BIAS == 1

\* ------------------------------------------------------------------------
\* AABB (bvh.rs)
\* ------------------------------------------------------------------------
from_cube(cube) == [min |-> cube.min_bounds, max |-> cube.max_bounds]

\* a merge that keeps the receiver's box
merge_left(a, b) == a

merge(a, b) ==
    [min |-> <<FMin(a.min[1], b.min[1]), FMin(a.min[2], b.min[2]), FMin(a.min[3], b.min[3])>>,
     max |-> <<FMax(a.max[1], b.max[1]), FMax(a.max[2], b.max[2]), FMax(a.max[3], b.max[3])>>]

\* one slab: the pair (t at min, t at max), swapped when out of order
Slab(lo, hi, o, inv) ==
    Only({IF FGt(a, b) THEN <<b, a>> ELSE <<a, b>>
          : a \in {FMul(FSub(lo, o), inv)}, b \in {FMul(FSub(hi, o), inv)}})

aabb_intersect(box, ray_origin, inv_dir) ==
    \E sx \in {Slab(box.min[1], box.max[1], ray_origin[1], inv_dir[1])},
       sy \in {Slab(box.min[2], box.max[2], ray_origin[2], inv_dir[2])},
       sz \in {Slab(box.min[3], box.max[3], ray_origin[3], inv_dir[3])} :
        IF FGt(sx[1], sy[2]) \/ FGt(sy[1], sx[2]) THEN FALSE
        ELSE LET tmin == IF FGt(sy[1], sx[1]) THEN sy[1] ELSE sx[1]
                 tmax == IF FLt(sy[2], sx[2]) THEN sy[2] ELSE sx[2]
             IN  ~(FGt(tmin, sz[2]) \/ FGt(sz[1], tmax))

center(box) ==
    <<(box.min[1] + box.max[1]) \div 2,
      (box.min[2] + box.max[2]) \div 2,
      (box.min[3] + box.max[3]) \div 2>>

\* ------------------------------------------------------------------------
\* Material (material.rs).  A colour is a Vector3 counting thousandths per
\* channel; albedo, reflectivity, transparency and emission_strength count
\* thousandths; specular is the (whole) Phong exponent; refractive_index is
\* the fraction <<num, den>>; texture is a path, or "none" for None.
\* ------------------------------------------------------------------------
Material(diffuse, albedo, specular, reflectivity, transparency, refractive_index, texture, emission, emission_strength) ==
    [diffuse |-> diffuse, albedo |-> albedo, specular |-> specular,
     reflectivity |-> reflectivity, transparency |-> transparency,
     refractive_index |-> refractive_index, texture |-> texture,
     emission |-> emission, emission_strength |-> emission_strength]

black == Material(VZero, <<0, 0>>, 0, 0, 0, <<0, 1>>, "none", VZero, 0)

\* ------------------------------------------------------------------------
\* Intersect (ray_intersect.rs).  u and v are kept as the fraction
\* <<numerator, denominator>> that get_uv divides.
\* ------------------------------------------------------------------------
IntersectNew(material, distance, normal, point, u, v) ==
    [material |-> material, distance |-> distance, is_intersecting |-> TRUE,
     normal |-> normal, point |-> point, u |-> u, v |-> v]

IntersectEmpty ==
    [material |-> black, distance |-> 0, is_intersecting |-> FALSE,
     normal |-> VZero, point |-> VZero, u |-> <<0, 1>>, v |-> <<0, 1>>]

\* ------------------------------------------------------------------------
\* Cube (cube.rs)
\* ------------------------------------------------------------------------
get_uv(cube, point, normal) ==
    LET size == <<cube.max_bounds[1] - cube.min_bounds[1],
                  cube.max_bounds[2] - cube.min_bounds[2],
                  cube.max_bounds[3] - cube.min_bounds[3]>>
        rel(i) == <<FSub(point[i], cube.min_bounds[i]), size[i]>>
    \* normal components are -1, 0 or 1, so |n| > 0.5 is |n| > 0
    IN  IF FGt(FAbs(normal[1]), 0) THEN <<rel(3), rel(2)>>
        ELSE IF FGt(FAbs(normal[2]), 0) THEN <<rel(1), rel(3)>>
        ELSE <<rel(1), rel(2)>>

\* the face whose plane the point lies on, tested in the order of the source
face_normal(cube, point) ==
    LET near(p, b) == FLt(FAbs(FSub(p, b)), NormalEps)
    IN  IF near(point[1], cube.min_bounds[1]) THEN <<-1, 0, 0>>
        ELSE IF near(point[1], cube.max_bounds[1]) THEN <<1, 0, 0>>
        ELSE IF near(point[2], cube.min_bounds[2]) THEN <<0, -1, 0>>
        ELSE IF near(point[2], cube.max_bounds[2]) THEN <<0, 1, 0>>
        ELSE IF near(point[3], cube.min_bounds[3]) THEN <<0, 0, -1>>
        ELSE IF near(point[3], cube.max_bounds[3]) THEN <<0, 0, 1>>
        ELSE VZero

\* the distance Cube::ray_intersect settles on, or "none" when it returns empty:
\* <<hit, distance>>
slab_distance(cube, ray_origin, ray_direction) ==
    LET inv_dir == InvDir(ray_direction)
    IN  Only({IF FGt(sx[1], sy[2]) \/ FGt(sy[1], sx[2]) THEN <<FALSE, 0>>
              ELSE LET tmin1 == IF FGt(sy[1], sx[1]) THEN sy[1] ELSE sx[1]
                       tmax1 == IF FLt(sy[2], sx[2]) THEN sy[2] ELSE sx[2]
                   IN  IF FGt(tmin1, sz[2]) \/ FGt(sz[1], tmax1) THEN <<FALSE, 0>>
                       ELSE LET tmin == IF FGt(sz[1], tmin1) THEN sz[1] ELSE tmin1
                                tmax == IF FLt(sz[2], tmax1) THEN sz[2] ELSE tmax1
                                distance == IF FGt(tmin, HitEps) THEN tmin ELSE tmax
                            IN  IF FLt(distance, HitEps) THEN <<FALSE, 0>>
                                ELSE <<TRUE, distance>>
              : sx \in {Slab(cube.min_bounds[1], cube.max_bounds[1], ray_origin[1], inv_dir[1])},
                sy \in {Slab(cube.min_bounds[2], cube.max_bounds[2], ray_origin[2], inv_dir[2])},
                sz \in {Slab(cube.min_bounds[3], cube.max_bounds[3], ray_origin[3], inv_dir[3])}})

\* cube.rs 85-108: the hit at the distance the slabs settled on
hit_at(cube, ray_origin, ray_direction, distance) ==
    Only({Only({Only({IntersectNew(cube.material, distance, normal, point, uv[1], uv[2])
                      : uv \in {get_uv(cube, point, normal)}})
                : normal \in {face_normal(cube, point)}})
          : point \in {<<FAdd(ray_origin[1], FMul(ray_direction[1], distance)),
                         FAdd(ray_origin[2], FMul(ray_direction[2], distance)),
                         FAdd(ray_origin[3], FMul(ray_direction[3], distance))>>}})

ray_intersect(cube, ray_origin, ray_direction) ==
    Only({IF ~sd[1] THEN IntersectEmpty ELSE hit_at(cube, ray_origin, ray_direction, sd[2])
          : sd \in {slab_distance(cube, ray_origin, ray_direction)}})

\* ------------------------------------------------------------------------
\* BVHNode (bvh.rs).  Object indices are the source's 0-based indices.
\* ------------------------------------------------------------------------
At(cubes, idx) == cubes[idx + 1]

\* a leaf that forgets which primitive it holds
LeafZero(bounds, object_idx) ==
    [kind |-> "Leaf", bounds |-> bounds, object_idx |-> 0]

Leaf(bounds, object_idx) ==
    [kind |-> "Leaf", bounds |-> bounds, object_idx |-> object_idx]

Internal(bounds, left, right) ==
    [kind |-> "Internal", bounds |-> bounds, left |-> left, right |-> right]

NoTree == [kind |-> "None"]

\* bvh.rs 101-104: the fold of merge over the slice, starting from its head
RECURSIVE fold_bounds(_, _, _, _)
fold_bounds(cubes, indices, k, acc) ==
    IF k > Len(indices) THEN acc
    ELSE fold_bounds(cubes, indices, k + 1, merge(acc, from_cube(At(cubes, indices[k]))))

\* a fold that skips one primitive too many (skip(2) for skip(1))
slice_bounds_skip2(cubes, indices) ==
    fold_bounds(cubes, indices, 3, from_cube(At(cubes, indices[1])))

slice_bounds(cubes, indices) ==
    fold_bounds(cubes, indices, 2, from_cube(At(cubes, indices[1])))

\* bvh.rs 106-118: 0 = x, 1 = y, 2 = z
split_axis(bounds) ==
    LET ex == bounds.max[1] - bounds.min[1]
        ey == bounds.max[2] - bounds.min[2]
        ez == bounds.max[3] - bounds.min[3]
    IN  IF ex > ey /\ ex > ez THEN 0
        ELSE IF ey > ez THEN 1
        ELSE 2

sort_key(cubes, idx, axis) == center(from_cube(At(cubes, idx)))[axis + 1]

\* the stable sort of slice::sort_by: an element goes behind every element
\* already placed whose key is not greater than its own
RECURSIVE insert_stable(_, _, _, _)
insert_stable(cubes, axis, sorted, x) ==
    IF sorted = <<>> THEN <<x>>
    ELSE IF sort_key(cubes, x, axis) < sort_key(cubes, sorted[Len(sorted)], axis)
         THEN Append(insert_stable(cubes, axis, SubSeq(sorted, 1, Len(sorted) - 1), x),
                     sorted[Len(sorted)])
         ELSE Append(sorted, x)

RECURSIVE sort_from(_, _, _, _, _)
sort_from(cubes, axis, indices, k, sorted) ==
    IF k > Len(indices) THEN sorted
    ELSE sort_from(cubes, axis, indices, k + 1, insert_stable(cubes, axis, sorted, indices[k]))

\* every element replaced by the first one
sort_fill(cubes, indices, axis) == [k \in 1..Len(indices) |-> indices[1]]

sort_by(cubes, indices, axis) == sort_from(cubes, axis, indices, 1, <<>>)

\* bvh.rs 136: where the sorted slice is split
mid_ceil(len) == (len + 1) \div 2

mid_of(len) == len \div 2

\* BVHNode::build on a non-empty slice: the tree, and the slice as the sorts
\* left it
RECURSIVE build(_, _)
build(cubes, indices) ==
    IF Len(indices) = 1
    THEN [node |-> Leaf(from_cube(At(cubes, indices[1])), indices[1]), indices |-> indices]
    ELSE LET bounds == slice_bounds(cubes, indices)
             axis == split_axis(bounds)
             sorted == sort_by(cubes, indices, axis)
             mid == mid_of(Len(sorted))
             l == build(cubes, SubSeq(sorted, 1, mid))
             r == build(cubes, SubSeq(sorted, mid + 1, Len(sorted)))
         IN  [node |-> Internal(bounds, l.node, r.node), indices |-> l.indices \o r.indices]

\* bvh.rs 173-183
closer(left_hit, right_hit) ==
    IF left_hit.is_intersecting /\ right_hit.is_intersecting
    THEN IF FLt(left_hit.distance, right_hit.distance) THEN left_hit ELSE right_hit
    ELSE IF left_hit.is_intersecting THEN left_hit
    ELSE right_hit

RECURSIVE bvh_intersect(_, _, _, _, _)
bvh_intersect(node, cubes, ray_origin, ray_direction, inv_dir) ==
    IF node.kind = "Leaf"
    THEN IF aabb_intersect(node.bounds, ray_origin, inv_dir)
         THEN ray_intersect(At(cubes, node.object_idx), ray_origin, ray_direction)
         ELSE IntersectEmpty
    ELSE IF ~aabb_intersect(node.bounds, ray_origin, inv_dir) THEN IntersectEmpty
    ELSE Only({closer(left_hit, right_hit)
               : left_hit \in {bvh_intersect(node.left, cubes, ray_origin, ray_direction, inv_dir)},
                 right_hit \in {bvh_intersect(node.right, cubes, ray_origin, ray_direction,
                                              inv_dir)}})

\* ------------------------------------------------------------------------
\* f32 conversions of integers (main.rs 381).  An f32 holds 24 significant
\* bits; a conversion or a quotient that needs more is rounded to the
\* nearest 24-bit value, ties to the even one.
\* ------------------------------------------------------------------------
F32Bits == 24

\* N / D rounded to an integer, ties to even
RoundDiv(N, D) ==
    LET q == N \div D
        r == N % D
    IN  IF 2 * r > D \/ (2 * r = D /\ q % 2 = 1) THEN q + 1 ELSE q

\* the power of two by which a positive quotient N / D is scaled so that its
\* integer part has exactly F32Bits bits: <<N', D'>> with N'/D' = (N/D) * 2^s
RECURSIVE Normalise(_, _, _)
Normalise(N, D, s) ==
    IF N \div D >= 2^F32Bits THEN Normalise(N, 2 * D, s - 1)
    ELSE IF N \div D < 2^(F32Bits - 1) THEN Normalise(2 * N, D, s + 1)
    ELSE <<N, D, s>>

\* `n as f32` for an integer n >= 0, as the integer the f32 equals
as_f32(n) ==
    IF n = 0 THEN 0
    ELSE LET nd == Normalise(n, 1, 0)
         IN  IF nd[3] >= 0 THEN n
             ELSE RoundDiv(nd[1], nd[2]) * 2^(-nd[3])

\* (a / b).ceil() as i32 for f32 values a >= 0 and b >= 1 that are integers:
\* the quotient is rounded to 24 bits first, then ceil is exact
f32_div_ceil(a, b) ==
    IF a = 0 THEN 0
    ELSE LET nd == Normalise(a, b, 0)
             m == RoundDiv(nd[1], nd[2])
         IN  IF nd[3] >= 0 THEN -((-m) \div 2^(nd[3]))
             ELSE m * 2^(-nd[3])

\* main.rs 381
rows_per_thread_of(height, num_thr) == f32_div_ceil(as_f32(height), as_f32(num_thr))

\* main.rs 387-388
start_y_of(id, rows) == id * rows
end_y_of(id, rows, height) ==
    IF (id + 1) * rows < height THEN (id + 1) * rows ELSE height

\* ========================================================================
\* State
\* ========================================================================
VARIABLES
    \* scene construction and one BVH query (main.rs 581-582, bvh.rs)
    cubes,          \* the primitive list
    indices,        \* the index slice handed to BVHNode::build
    bvh,            \* the tree, NoTree before the build
    bpc,            \* "scene", "built", "panicked", "queried", "tested", "slabbed"
    ray_origin,
    ray_direction,
    bvh_hit,        \* what BVHNode::intersect returned for the ray
    prim_hits,      \* what Cube::ray_intersect returned, per primitive
    box_hits,       \* what AABB::intersect returned, per primitive's box
    \* one call of render (main.rs 365-438)
    camera,         \* the camera the frame is rendered from
    lights,         \* the light list
    frames,         \* history: how many frames the loop of main has begun
    fb_width,       \* framebuffer.width
    fb_height,      \* framebuffer.height
    color_buffer,   \* framebuffer.color_buffer: pixel <<x, y>> -> Color
    current_color,  \* framebuffer.current_color
    num_threads,    \* thread::available_parallelism(), or 4
    rows_per_thread,
    rpc,            \* where render's own thread is: "entry", "spawn", "join", "write", "done"
    thread_id,      \* the spawn loop's counter
    handles,        \* the spawned workers, in spawn order
    results,        \* the RowRanges the joins collected
    cursor,         \* the write loop's position
    writes,         \* history: how often set_pixel drew each pixel
    dropped,        \* history: set_pixel calls outside the framebuffer
    \* one primary ray through cast_ray (main.rs 172-293)
    stack,          \* the active cast_ray invocations, the innermost last
    calls,          \* how many times cast_ray has been entered
    returned,       \* the invocation that returned last, with its value
    shadow_log,     \* the last pass of the light loop that cast a shadow ray
    shadow_env,     \* what the BVH answers to the shadow rays of this run
    skybox_texture, \* Some(path) as the path, None as "none"
    spc,            \* "idle", "shading", "done"
    \* one call of a function of the library (snell.rs, bvh.rs)
    fn,             \* the function called: "refract", "merge", "axis", or "none"
    args,           \* its arguments
    result,         \* what it returned
    cpc             \* "call" before the call, "done" after it, or "none"

bvhVars == <<cubes, indices, bvh, bpc, ray_origin, ray_direction, bvh_hit, prim_hits, box_hits>>

sceneVars == <<camera, lights, frames>>

renderVars == <<fb_width, fb_height, color_buffer, current_color, num_threads,
                rows_per_thread, rpc, thread_id, handles, results, cursor, writes, dropped>>

shadeVars == <<stack, calls, returned, shadow_log, shadow_env, skybox_texture, spc>>

callVars == <<fn, args, result, cpc>>

vars == <<bvhVars, sceneVars, renderVars, shadeVars, callVars>>

\* ------------------------------------------------------------------------
\* Bounds of the scene and ray inputs
\* ------------------------------------------------------------------------
MaxCubes == 3

stone == Material(<<500, 500, 500>>, <<900, 100>>, 5, 100, 0, <<0, 1>>, "none", VZero, 0)

MkCube(lo, hi) == [min_bounds |-> lo, max_bounds |-> hi, material |-> stone]

\* pairwise non-overlapping boxes, every coordinate even (centres are exact)
Catalogue ==
    << MkCube(<<0, 0, 0>>, <<20, 20, 20>>),
       MkCube(<<40, 0, 0>>, <<60, 20, 20>>),
       MkCube(<<0, 40, 0>>, <<20, 80, 20>>),
       MkCube(<<0, 0, 40>>, <<40, 20, 60>>) >>

Overlap(a, b) ==
    \A i \in 1..3 : a.min_bounds[i] < b.max_bounds[i] /\ b.min_bounds[i] < a.max_bounds[i]

\* the catalogue boxes picked by a set of catalogue positions, in catalogue order
RECURSIVE Pick(_, _)
Pick(S, k) ==
    IF k > Len(Catalogue) THEN <<>>
    ELSE (IF k \in S THEN <<Catalogue[k]>> ELSE <<>>) \o Pick(S, k + 1)

Scenes == { Pick(S, 1) : S \in { T \in SUBSET (1..Len(Catalogue)) : Cardinality(T) <= MaxCubes } }

IndexOrders(n) ==
    { p \in [1..n -> 0..(n - 1)] : \A i, j \in 1..n : i # j => p[i] # p[j] }

Origins == { <<x, y, z>> : x \in {-10, -5, 10, 20, 50}, y \in {10, 20, 30}, z \in {-11, 10} }

Directions == { <<x, y, z>> : x \in {-1, 0, 1}, y \in {-1, 0, 1}, z \in {-1, 0, 1} }

\* Color (raylib): r, g, b, a in 0..255
Color(r, g, b, a) == [r |-> r, g |-> g, b |-> b, a |-> a]
BLACK == Color(0, 0, 0, 255)
WHITE == Color(255, 255, 255, 255)

\* no library call under way
NoCall ==
    /\ fn = "none"
    /\ args = <<>>
    /\ result = <<>>
    /\ cpc = "none"

\* no render in progress: an empty framebuffer and nothing spawned
NoShade ==
    /\ stack = <<>>
    /\ calls = 0
    /\ returned = [depth |-> -1]
    /\ shadow_log = [cast |-> FALSE]
    /\ shadow_env = "none"
    /\ skybox_texture = "none"
    /\ spc = "idle"

NoFrame ==
    /\ fb_width = 0
    /\ fb_height = 0
    /\ color_buffer = <<>>
    /\ current_color = WHITE
    /\ num_threads = 1
    /\ rows_per_thread = 0
    /\ rpc = "none"
    /\ thread_id = 0
    /\ handles = <<>>
    /\ results = <<>>
    /\ cursor = [range |-> 0, y |-> 0, x |-> 0, pixel_idx |-> 0]
    /\ writes = <<>>
    /\ dropped = 0

NoRender ==
    /\ camera = 0
    /\ lights = 0
    /\ frames = 0
    /\ NoFrame

\* ------------------------------------------------------------------------
\* Scene construction and the BVH query
\* ------------------------------------------------------------------------
InitBvh ==
    /\ cubes \in Scenes
    /\ indices \in IndexOrders(Len(cubes))
    /\ bvh = NoTree
    /\ bpc = "scene"
    /\ ray_origin = VZero
    /\ ray_direction = VZero
    /\ bvh_hit = IntersectEmpty
    /\ prim_hits = <<>>
    /\ box_hits = <<>>
    /\ NoRender
    /\ NoShade
    /\ NoCall

\* BVHNode::build(&objects, &mut indices); an empty slice is indexed at
\* indices[0] (bvh.rs 101) and the call panics
Build ==
    /\ bpc = "scene"
    /\ IF Len(indices) = 0
       THEN /\ bpc' = "panicked"
            /\ UNCHANGED <<bvh, indices>>
       ELSE /\ bvh' = build(cubes, indices).node
            /\ indices' = build(cubes, indices).indices
            /\ bpc' = "built"
    /\ UNCHANGED <<cubes, ray_origin, ray_direction, bvh_hit, prim_hits, box_hits>>
    /\ UNCHANGED <<callVars, sceneVars, renderVars, shadeVars>>

\* bvh.intersect(objects, ray_origin, ray_direction, &inv_dir) with
\* inv_dir = 1 / ray_direction (main.rs 186-192)
Intersect(o, d) ==
    /\ bpc = "built"
    /\ ray_origin' = o
    /\ ray_direction' = d
    /\ bvh_hit' = bvh_intersect(bvh, cubes, o, d, InvDir(d))
    /\ bpc' = "queried"
    /\ UNCHANGED <<cubes, indices, bvh, prim_hits, box_hits>>
    /\ UNCHANGED <<callVars, sceneVars, renderVars, shadeVars>>

\* Cube::ray_intersect of every primitive with the same ray
RayIntersectAll ==
    /\ bpc = "queried"
    /\ prim_hits' = [i \in 1..Len(cubes) |-> ray_intersect(cubes[i], ray_origin, ray_direction)]
    /\ bpc' = "tested"
    /\ UNCHANGED <<cubes, indices, bvh, ray_origin, ray_direction, bvh_hit, box_hits>>
    /\ UNCHANGED <<callVars, sceneVars, renderVars, shadeVars>>

\* AABB::intersect of every primitive's box with the same ray
AabbIntersectAll ==
    /\ bpc = "tested"
    /\ box_hits' = [i \in 1..Len(cubes) |->
                      aabb_intersect(from_cube(cubes[i]), ray_origin, InvDir(ray_direction))]
    /\ bpc' = "slabbed"
    /\ UNCHANGED <<cubes, indices, bvh, ray_origin, ray_direction, bvh_hit, prim_hits>>
    /\ UNCHANGED <<callVars, sceneVars, renderVars, shadeVars>>

NextBvh ==
    \/ Build
    \/ \E o \in Origins, d \in Directions : Intersect(o, d)
    \/ RayIntersectAll
    \/ AabbIntersectAll

SpecBvh == InitBvh /\ [][NextBvh]_vars

\* ------------------------------------------------------------------------
\* render and render_row_range (main.rs 321-438)
\* ------------------------------------------------------------------------
MaxWidth == 2
MaxHeight == 3
MaxThreads == 3

\* a Vector3 colour of the frame counts thousandths per channel
Milli == 10^3

\* material.rs 61-68.  (v * 255.0).min(255.0) as u8: f32::min returns the
\* other operand when one is NaN, and the cast truncates and saturates
channel_to_u8(v) ==
    IF v = NaN \/ v = PInf THEN 255
    ELSE IF v = NInf \/ v < 0 THEN 0
    ELSE IF v * 255 >= 255 * Milli THEN 255
    ELSE (v * 255) \div Milli

vector3_to_color(v) == Color(channel_to_u8(v[1]), channel_to_u8(v[2]), channel_to_u8(v[3]), 255)

\* main.rs 337-355: the colour cast_ray returns at depth 0 for the camera ray
\* of pixel (x, y).  render_row_range reads the camera, the lights, the BVH
\* and the primitives and nothing else, so for a fixed scene the colour is a
\* function of the pixel; the table below is one such function per scene,
\* with channels below 0, above 1 and NaN among its values.
camera_ray_color(cam, lts, x, y) ==
    IF x = 1 /\ y = 1 /\ cam = 2 THEN <<NaN, 0, 2 * Milli>>
    ELSE <<300 * x + 450 * (y % 5) + 100 * cam - 250, 40 * lts + 70 * x + 5 * (y % 7),
           Milli - 400 * (y % 5)>>

Pixels(w, h) == (0..(w - 1)) \X (0..(h - 1))

Background == Color(51, 13, 13, 255)

InitRender ==
    /\ cubes = <<>>
    /\ indices = <<>>
    /\ bvh = NoTree
    /\ bpc = "none"
    /\ ray_origin = VZero
    /\ ray_direction = VZero
    /\ bvh_hit = IntersectEmpty
    /\ prim_hits = <<>>
    /\ box_hits = <<>>
    /\ camera \in {1, 2}
    /\ frames = 0
    /\ lights \in {1, 2}
    /\ fb_width \in 1..MaxWidth
    /\ fb_height \in 0..MaxHeight
    /\ color_buffer = [p \in Pixels(fb_width, fb_height) |-> Background]
    /\ current_color = WHITE
    /\ num_threads \in 1..MaxThreads
    /\ rows_per_thread = 0
    /\ rpc = "entry"
    /\ thread_id = 0
    /\ handles = <<>>
    /\ results = <<>>
    /\ cursor = [range |-> 0, y |-> 0, x |-> 0, pixel_idx |-> 0]
    /\ writes = [p \in Pixels(fb_width, fb_height) |-> 0]
    /\ dropped = 0
    /\ NoShade
    /\ NoCall

\* main.rs 375-381
RenderEntry ==
    /\ rpc = "entry"
    /\ rows_per_thread' = rows_per_thread_of(fb_height, num_threads)
    /\ thread_id' = 0
    /\ rpc' = "spawn"
    /\ UNCHANGED <<callVars, bvhVars, shadeVars, sceneVars, fb_width, fb_height, color_buffer, current_color,
                   num_threads, handles, results, cursor, writes, dropped>>

\* the worker a spawn starts: its band and an empty pixel vector
NewWorker(start_y, end_y) ==
    [start_y |-> start_y, end_y |-> end_y, y |-> start_y, x |-> 0,
     pixels |-> <<>>, finished |-> FALSE]

\* main.rs 386-418: one iteration of the spawn loop that spawns
Spawn ==
    /\ rpc = "spawn"
    /\ thread_id < num_threads
    /\ start_y_of(thread_id, rows_per_thread) < fb_height
    /\ handles' = Append(handles, NewWorker(start_y_of(thread_id, rows_per_thread),
                                            end_y_of(thread_id, rows_per_thread, fb_height)))
    /\ thread_id' = thread_id + 1
    /\ UNCHANGED <<callVars, bvhVars, shadeVars, sceneVars, fb_width, fb_height, color_buffer, current_color,
                   num_threads, rows_per_thread, rpc, results, cursor, writes, dropped>>

\* main.rs 386, 390-392: the loop ends, by its range or by the break
SpawnEnd ==
    /\ rpc = "spawn"
    /\ \/ thread_id >= num_threads
       \/ start_y_of(thread_id, rows_per_thread) >= fb_height
    /\ rpc' = "join"
    /\ UNCHANGED <<callVars, bvhVars, shadeVars, sceneVars, fb_width, fb_height, color_buffer, current_color,
                   num_threads, rows_per_thread, thread_id, handles, results, cursor,
                   writes, dropped>>

\* main.rs 335-359: worker i shades one pixel and pushes its colour
WorkerPixel(i) ==
    LET w == handles[i]
        at_row_end == w.x + 1 >= fb_width
    IN  /\ ~w.finished
        /\ w.y < w.end_y
        /\ w.x < fb_width
        /\ handles' = [handles EXCEPT ![i] =
              [w EXCEPT !.pixels = Append(w.pixels,
                                          vector3_to_color(camera_ray_color(camera, lights, w.x, w.y))),
                        !.x = IF at_row_end THEN 0 ELSE w.x + 1,
                        !.y = IF at_row_end THEN w.y + 1 ELSE w.y]]
        /\ UNCHANGED <<callVars, bvhVars, shadeVars, sceneVars, fb_width, fb_height, color_buffer, current_color,
                       num_threads, rows_per_thread, rpc, thread_id, results, cursor,
                       writes, dropped>>

\* main.rs 362, 410-414: worker i's closure returns its RowRange
WorkerReturn(i) ==
    /\ ~handles[i].finished
    /\ handles[i].y >= handles[i].end_y
    /\ handles' = [handles EXCEPT ![i].finished = TRUE]
    /\ UNCHANGED <<callVars, bvhVars, shadeVars, sceneVars, fb_width, fb_height, color_buffer, current_color,
                   num_threads, rows_per_thread, rpc, thread_id, results, cursor,
                   writes, dropped>>

RowRange(w) == [start |-> w.start_y, end |-> w.end_y, pixels |-> w.pixels]

\* a join that does not wait for the worker to return
JoinEarly ==
    /\ rpc = "join"
    /\ Len(results) < Len(handles)
    /\ results' = Append(results, RowRange(handles[Len(results) + 1]))
    /\ UNCHANGED <<callVars, bvhVars, shadeVars, sceneVars, fb_width, fb_height, color_buffer, current_color,
                   num_threads, rows_per_thread, rpc, thread_id, handles, cursor,
                   writes, dropped>>

\* main.rs 420-423: join the next handle, in spawn order; blocks until that
\* worker has returned
Join ==
    /\ rpc = "join"
    /\ Len(results) < Len(handles)
    /\ handles[Len(results) + 1].finished
    /\ results' = Append(results, RowRange(handles[Len(results) + 1]))
    /\ UNCHANGED <<callVars, bvhVars, shadeVars, sceneVars, fb_width, fb_height, color_buffer, current_color,
                   num_threads, rows_per_thread, rpc, thread_id, handles, cursor,
                   writes, dropped>>

\* main.rs 423-426: every handle is joined, the scope ends, the write loop starts
JoinEnd ==
    /\ rpc = "join"
    /\ Len(results) = Len(handles)
    /\ rpc' = "write"
    /\ cursor' = [range |-> 0, y |-> 0, x |-> 0, pixel_idx |-> 0]
    /\ UNCHANGED <<callVars, bvhVars, shadeVars, sceneVars, fb_width, fb_height, color_buffer, current_color,
                   num_threads, rows_per_thread, thread_id, handles, results, writes, dropped>>

\* main.rs 426, 430: the rows of the RowRange under the cursor are exhausted
RangeWritten == IF cursor.range = 0 THEN TRUE ELSE cursor.y >= results[cursor.range].end

\* main.rs 426-429: take the next RowRange, pixel_idx = 0
WriteRange ==
    /\ rpc = "write"
    /\ RangeWritten
    /\ cursor.range < Len(results)
    /\ cursor' = [range |-> cursor.range + 1, y |-> results[cursor.range + 1].start,
                  x |-> 0, pixel_idx |-> 0]
    /\ UNCHANGED <<callVars, bvhVars, shadeVars, sceneVars, fb_width, fb_height, color_buffer, current_color,
                   num_threads, rows_per_thread, rpc, thread_id, handles, results,
                   writes, dropped>>

\* framebuffer.rs 28-32: set_pixel draws inside the framebuffer only
InFramebuffer(x, y) == x >= 0 /\ x < fb_width /\ y >= 0 /\ y < fb_height

\* main.rs 430-435: one pixel of the write loop; indexing the pixel vector
\* past its end panics
WritePixel ==
    LET rr == results[cursor.range]
        at_row_end == cursor.x + 1 >= fb_width
    IN  /\ rpc = "write"
        /\ cursor.range >= 1
        /\ cursor.y < rr.end
        /\ IF cursor.pixel_idx >= Len(rr.pixels)
           THEN /\ rpc' = "panicked"
                /\ UNCHANGED <<current_color, color_buffer, writes, dropped, cursor>>
           ELSE /\ current_color' = rr.pixels[cursor.pixel_idx + 1]
                /\ IF InFramebuffer(cursor.x, cursor.y)
                   THEN /\ color_buffer' = [color_buffer EXCEPT ![<<cursor.x, cursor.y>>] =
                                               rr.pixels[cursor.pixel_idx + 1]]
                        /\ writes' = [writes EXCEPT ![<<cursor.x, cursor.y>>] = @ + 1]
                        /\ UNCHANGED dropped
                   ELSE /\ dropped' = dropped + 1
                        /\ UNCHANGED <<color_buffer, writes>>
                /\ cursor' = [cursor EXCEPT !.pixel_idx = @ + 1,
                                            !.x = IF at_row_end THEN 0 ELSE cursor.x + 1,
                                            !.y = IF at_row_end THEN cursor.y + 1 ELSE cursor.y]
                /\ UNCHANGED rpc
        /\ UNCHANGED <<callVars, bvhVars, shadeVars, sceneVars, fb_width, fb_height, num_threads, rows_per_thread,
                       thread_id, handles, results>>

\* main.rs 437-438: the last RowRange is written, render returns
RenderReturn ==
    /\ rpc = "write"
    /\ cursor.range = Len(results)
    /\ RangeWritten
    /\ rpc' = "done"
    /\ UNCHANGED <<callVars, bvhVars, shadeVars, sceneVars, fb_width, fb_height, color_buffer, current_color,
                   num_threads, rows_per_thread, thread_id, handles, results, cursor,
                   writes, dropped>>

NextRender ==
    \/ RenderEntry
    \/ Spawn
    \/ SpawnEnd
    \/ \E i \in 1..Len(handles) : WorkerPixel(i)
    \/ \E i \in 1..Len(handles) : WorkerReturn(i)
    \/ Join
    \/ JoinEnd
    \/ WriteRange
    \/ WritePixel
    \/ RenderReturn

SpecRender == InitRender /\ [][NextRender]_vars

\* ------------------------------------------------------------------------
\* render at the granularity of a row band (main.rs 365-438), for heights
\* whose pixels cannot be enumerated.  A worker's whole loop and the write
\* loop of one RowRange are one step each; colours are kept for the rows of
\* SampleRows only, every other row is known by its position alone.
\* ------------------------------------------------------------------------
MaxBandHeight == 6
MaxBandThreads == 3

\* the smallest height whose conversion to f32 (main.rs 381) is inexact
BigHeight == 2^F32Bits + 1

BandHeights == (0..MaxBandHeight) \cup {BigHeight}

SampleRows(h) ==
    {y \in (0..MaxBandHeight) \cup {2^(F32Bits - 1) - 1, 2^(F32Bits - 1),
                                    2^F32Bits - 1, 2^F32Bits} : y < h}

SamplePixels(w, h) == (0..(w - 1)) \X SampleRows(h)

\* main.rs 333-359: the vector a worker has built when its loops end; the
\* colour of pixel (x, y) is the push number (y - start_y) * width + x
band_pixels(start_y, end_y) ==
    LET rows == {y \in SampleRows(fb_height) : y >= start_y /\ y < end_y}
        idxs == {(y - start_y) * fb_width + x : y \in rows, x \in 0..(fb_width - 1)}
    IN  [len |-> (end_y - start_y) * fb_width,
         at  |-> [k \in idxs |->
                   vector3_to_color(camera_ray_color(camera, lights, k % fb_width,
                                                     start_y + (k \div fb_width)))]]

InitBands ==
    /\ cubes = <<>>
    /\ indices = <<>>
    /\ bvh = NoTree
    /\ bpc = "none"
    /\ ray_origin = VZero
    /\ ray_direction = VZero
    /\ bvh_hit = IntersectEmpty
    /\ prim_hits = <<>>
    /\ box_hits = <<>>
    /\ camera \in {1, 2}
    /\ frames = 0
    /\ lights = 1
    /\ fb_width \in 1..2
    /\ fb_height \in BandHeights
    /\ color_buffer = [p \in SamplePixels(fb_width, fb_height) |-> Background]
    /\ current_color = WHITE
    /\ num_threads \in 1..MaxBandThreads
    /\ rows_per_thread = 0
    /\ rpc = "entry"
    /\ thread_id = 0
    /\ handles = <<>>
    /\ results = <<>>
    /\ cursor = [range |-> 0, y |-> 0, x |-> 0, pixel_idx |-> 0]
    /\ writes = [p \in SamplePixels(fb_width, fb_height) |-> 0]
    /\ dropped = 0
    /\ NoShade
    /\ NoCall

\* main.rs 333-359: worker i runs both loops of render_row_range
WorkerBand(i) ==
    LET w == handles[i]
    IN  /\ ~w.finished
        /\ w.y < w.end_y
        /\ handles' = [handles EXCEPT ![i] =
              [w EXCEPT !.pixels = band_pixels(w.start_y, w.end_y), !.y = w.end_y, !.x = 0]]
        /\ UNCHANGED <<callVars, bvhVars, shadeVars, sceneVars, fb_width, fb_height, color_buffer, current_color,
                       num_threads, rows_per_thread, rpc, thread_id, results, cursor,
                       writes, dropped>>

\* main.rs 430-435 for every pixel of the RowRange under the cursor: pixel
\* (x, y) reads pixels[(y - start) * width + x], which panics past the end,
\* and set_pixel draws it when it lies inside the framebuffer
WriteBand ==
    LET rr == results[cursor.range]
        rows == {y \in SampleRows(rr.end) : y >= rr.start}
        drawn == {p \in (0..(fb_width - 1)) \X rows : InFramebuffer(p[1], p[2])}
        idx(p) == (p[2] - rr.start) * fb_width + p[1]
        last == <<fb_width - 1, rr.end - 1>>
    IN  /\ rpc = "write"
        /\ cursor.range >= 1
        /\ cursor.y < rr.end
        /\ IF (rr.end - rr.start) * fb_width > rr.pixels.len
           THEN /\ rpc' = "panicked"
                /\ UNCHANGED <<current_color, color_buffer, writes, dropped, cursor>>
           ELSE /\ current_color' = IF idx(last) \in DOMAIN rr.pixels.at
                                    THEN rr.pixels.at[idx(last)] ELSE current_color
                /\ color_buffer' = [p \in DOMAIN color_buffer |->
                                      IF p \in drawn THEN rr.pixels.at[idx(p)]
                                      ELSE color_buffer[p]]
                /\ writes' = [p \in DOMAIN writes |->
                                 IF p \in drawn THEN writes[p] + 1 ELSE writes[p]]
                /\ dropped' = dropped + fb_width *
                      (IF rr.end <= fb_height THEN 0
                       ELSE rr.end - (IF rr.start > fb_height THEN rr.start ELSE fb_height))
                /\ cursor' = [cursor EXCEPT !.pixel_idx = (rr.end - rr.start) * fb_width,
                                            !.x = 0, !.y = rr.end]
                /\ UNCHANGED rpc
        /\ UNCHANGED <<callVars, bvhVars, shadeVars, sceneVars, fb_width, fb_height, num_threads, rows_per_thread,
                       thread_id, handles, results>>

NextBands ==
    \/ RenderEntry
    \/ Spawn
    \/ SpawnEnd
    \/ \E i \in 1..Len(handles) : WorkerBand(i)
    \/ \E i \in 1..Len(handles) : WorkerReturn(i)
    \/ Join
    \/ JoinEnd
    \/ WriteRange
    \/ WriteBand
    \/ RenderReturn

SpecBands == InitBands /\ [][NextBands]_vars

\* ------------------------------------------------------------------------
\* Shading arithmetic.  A direction or a normal counts fifths per component
\* (<<3, -4, 0>> is (0.6, -0.8, 0)), so the unit vectors of the model are
\* the axes and the 3-4-5 directions; a dot product of two of them counts
\* 25ths.  A position counts units of 1e-4.  Colours, weights, intensities
\* and cosines handed to the colour arithmetic count thousandths, and a
\* product of two of them is truncated to a thousandth.
\* ------------------------------------------------------------------------
NaNVec == <<NaN, NaN, NaN>>

HasNaN(v) == v[1] = NaN \/ v[2] = NaN \/ v[3] = NaN

Dot(a, b) == Only({u[1] * v[1] + u[2] * v[2] + u[3] * v[3] : u \in {a}, v \in {b}})

\* a dot product of two fifth-vectors, in thousandths
DotMilli(a, b) == Dot(a, b) * 40

VNeg(v) == Only({<<-u[1], -u[2], -u[3]>> : u \in {v}})

VAdd(a, b) == Only({<<u[1] + v[1], u[2] + v[2], u[3] + v[3]>> : u \in {a}, v \in {b}})

Cmul(a, b) == (a * b) \div Milli

\* Vector3 * f32 and the component-wise Vector3 * Vector3
VScale(v, k) == Only({<<Cmul(u[1], c), Cmul(u[2], c), Cmul(u[3], c)>> : u \in {v}, c \in {k}})

VMul(a, b) ==
    Only({<<Cmul(u[1], v[1]), Cmul(u[2], v[2]), Cmul(u[3], v[3])>> : u \in {a}, v \in {b}})

\* f32::sqrt on the arguments the model meets: the whole part of the root
sqrt_table == [n \in 0..(125 * 125) |-> CHOOSE r \in 0..125 : r * r <= n /\ n < (r + 1) * (r + 1)]

sqrt_floor(n) == IF n <= 0 THEN 0 ELSE sqrt_table[n]

\* Vector3::normalized (raylib), called at main.rs 125, 146, 198, 205, 219:
\* a zero length is replaced by 1, so the zero vector stays the zero vector
normalized(v) ==
    Only({IF HasNaN(u) THEN NaNVec
          ELSE Only({IF length = 0 THEN u
                     ELSE <<(u[1] * 5) \div length, (u[2] * 5) \div length,
                            (u[3] * 5) \div length>> : length \in {sqrt_floor(Dot(u, u))}})
          : u \in {v}})

\* f32::powf with a whole exponent (main.rs 223); powf(x, 0) is 1
RECURSIVE pow_steps(_, _)
pow_steps(x, e) == IF e = 0 THEN Milli ELSE Cmul(x, pow_steps(x, e - 1))

powf(x, e) == Only({pow_steps(base, exponent) : base \in {x}, exponent \in {e}})

\* ray_origin + ray_direction * distance, and point +- normal * 1e-4
Along(origin, dir, distance) ==
    Only({IF HasNaN(o) \/ ~IsFinite(t)
          THEN <<FAdd(o[1], FMul(d[1], t)), FAdd(o[2], FMul(d[2], t)), FAdd(o[3], FMul(d[3], t))>>
          ELSE <<o[1] + (d[1] * t) \div 5, o[2] + (d[2] * t) \div 5, o[3] + (d[3] * t) \div 5>>
          : o \in {origin}, d \in {dir}, t \in {distance}})

\* textures.rs 67-97: the loaded textures, each one pixel wide and high
Textures ==
    [path \in {"assets/nether_skybox.png", "assets/lava.png"} |->
        IF path = "assets/lava.png" THEN <<900, 300, 100>> ELSE <<120, 30, 40>>]

get_texture(path) == path \in DOMAIN Textures

\* tx and ty are clamped to the last column and row, here column 0 and row 0
get_pixel_color(path) == IF path \in DOMAIN Textures THEN Textures[path] ELSE <<Milli, Milli, Milli>>

\* main.rs 100-143
procedural_sky(dir, skybox) ==
    IF skybox # "none" /\ get_texture(skybox) THEN get_pixel_color(skybox)
    ELSE LET dark_red == <<200, 50, 50>>
             crimson == <<400, 80, 100>>
             dark_orange == <<300, 100, 50>>
         IN  Only({IF t < 300 THEN dark_red
                   ELSE IF t < 600
                        THEN LET k == ((t - 300) * Milli) \div 300
                             IN  VAdd(VScale(dark_red, Milli - k), VScale(crimson, k))
                        ELSE LET k == ((t - 600) * Milli) \div 400
                             IN  VAdd(VScale(crimson, Milli - k), VScale(dark_orange, k))
                   : t \in {Cmul(normalized(dir)[2] * 200 + Milli, 500)}})

\* snell.rs 3-5
reflect(incident, normal) ==
    Only({LET twice == 2 * Dot(i, n)
          IN  <<i[1] - (n[1] * twice) \div 25, i[2] - (n[2] * twice) \div 25,
                i[3] - (n[3] * twice) \div 25>>
          : i \in {incident}, n \in {normal}})

\* snell.rs 13-37: cosi in 25ths after the clamp and the flip, eta as the
\* fraction en / ed, whether the ray leaves the medium, and kn, the
\* numerator of k = kn / (625 * ed^2)
snell(incident, normal, refractive_index) ==
    Only({LET clamped == IF d < -25 THEN -25 ELSE IF d > 25 THEN 25 ELSE d
              leaving == clamped > 0
              cosi == IF leaving THEN clamped ELSE -clamped
              en == IF leaving THEN refractive_index[1] ELSE refractive_index[2]
              ed == IF leaving THEN refractive_index[2] ELSE refractive_index[1]
          IN  [leaving |-> leaving, cosi |-> cosi, en |-> en, ed |-> ed,
               kn |-> 625 * ed * ed - en * en * (625 - cosi * cosi)]
          : d \in {Dot(incident, normal)}})

\* a refraction whose result the model's vectors can hold exactly
Representable(incident, normal, refractive_index) ==
    \E sn \in {snell(incident, normal, refractive_index)} :
        LET root == sqrt_floor(sn.kn)
        IN  /\ sn.ed # 0
            /\ \/ sn.kn < 0
               \/ normal = VZero /\ \A i \in 1..3 : (25 * incident[i] * sn.en) % (25 * sn.ed) = 0
               \/ /\ root * root = sn.kn
                  /\ \A i \in 1..3 :
                        (25 * incident[i] * sn.en
                           + (IF sn.leaving THEN -normal[i] ELSE normal[i])
                             * (sn.en * sn.cosi - root))
                        % (25 * sn.ed) = 0

\* snell.rs 7-47
refract(incident, normal, refractive_index) ==
    Only({LET n == IF sn.leaving THEN VNeg(normal) ELSE normal
              root == sqrt_floor(sn.kn)
              comp(i) == (25 * incident[i] * sn.en + n[i] * (sn.en * sn.cosi - root))
                         \div (25 * sn.ed)
          IN  IF sn.ed = 0
              \* eta is +inf: k is -inf, or NaN when cosi is 1
              THEN IF sn.cosi = 25 THEN NaNVec ELSE VZero
              ELSE IF sn.kn < 0 THEN VZero
              ELSE <<comp(1), comp(2), comp(3)>>
          : sn \in {snell(incident, normal, refractive_index)}})

\* main.rs 147: intersect.point + intersect.normal * 1e-4
shadow_origin(intersect) == Along(intersect.point, intersect.normal, 1)

\* main.rs 145-159, given what the BVH answered to the shadow ray and the
\* length of light.position - intersect.point
cast_shadow_any_hit(shadow_hit, light_distance) ==
    IF shadow_hit.is_intersecting THEN 700 ELSE 0

cast_shadow(shadow_hit, light_distance) ==
    IF shadow_hit.is_intersecting /\ FLt(shadow_hit.distance, light_distance) THEN 700 ELSE 0

\* main.rs 163-170
offset_origin(intersect, direction) ==
    IF Dot(direction, intersect.normal) < 0
    THEN Along(intersect.point, VNeg(intersect.normal), ORIGIN_BIAS)
    ELSE Along(intersect.point, intersect.normal, ORIGIN_BIAS)

\* main.rs 182: the depth test
depth_exceeded_at_3(depth) == depth > 3

depth_exceeded(depth) == depth > 2

\* ------------------------------------------------------------------------
\* cast_ray (main.rs 172-293) as a machine: the stack holds one record per
\* active invocation.  What the BVH answers to a ray is an input of the
\* step that asks; so is, per light, the direction and the distance of the
\* light as the hit points of the run see it.
\* ------------------------------------------------------------------------
glass == Material(<<600, 700, 800>>, <<900, 100>>, 4, 0, 500, <<4, 3>>, "none", VZero, 0)

crystal == Material(<<700, 700, 900>>, <<850, 150>>, 3, 300, 500, <<4, 3>>, "none", VZero, 0)

lamp == Material(<<1000, 450, 150>>, <<900, 100>>, 2, 0, 0, <<0, 1>>, "assets/lava.png",
                 <<1000, 450, 150>>, 1200)

\* reflectivity and transparency exactly at the 0.05 threshold
dull == Material(<<300, 300, 300>>, <<950, 50>>, 1, 50, 50, <<4, 3>>, "assets/missing.png", VZero, 0)

AxisNormals == {<<5, 0, 0>>, <<-5, 0, 0>>, <<0, 5, 0>>, <<0, -5, 0>>}

\* cube.rs 85: how far along the ray the hits of the model lie
HitDistance == 5 * 10

SurfaceHit(origin, dir, material, normal) ==
    IntersectNew(material, HitDistance, normal, Along(origin, dir, HitDistance), <<0, 1>>, <<0, 1>>)

\* cube.rs 78-97 for a ray of direction zero: the distance is +inf, the
\* point is NaN and no face is near it
DegenerateHit(material) == IntersectNew(material, PInf, VZero, NaNVec, <<0, 1>>, <<0, 1>>)

\* the answers bvh.intersect can give to the ray (main.rs 192): the scene
\* shows glass to the rays that go down, stone to the others, crystal to
\* both, and the lamp and the dull block straight below
Surfaces(origin, dir) ==
    IF dir = VZero
    THEN {IntersectEmpty, DegenerateHit(crystal)}
    ELSE LET front == {a \in AxisNormals : Dot(dir, a) < 0}
             firstFront == {a \in front : dir[2] # 0 => a[2] # 0}
         IN  {IntersectEmpty}
             \cup {SurfaceHit(origin, dir, crystal, n) :
                     n \in {a \in front : Representable(dir, a, crystal.refractive_index)}}
             \cup (IF dir[2] < 0
                   THEN {SurfaceHit(origin, dir, glass, n) :
                           n \in {a \in AxisNormals :
                                    Dot(dir, a) # 0 /\ Representable(dir, a, glass.refractive_index)}}
                   ELSE {SurfaceHit(origin, dir, stone, n) : n \in firstFront})
             \cup (IF dir = <<0, -5, 0>>
                   THEN {SurfaceHit(origin, dir, m, n) : m \in {lamp, dull}, n \in firstFront}
                   ELSE {})

\* light.rs 3-7, with the position given as the hit points see it
Light(toward, distance, color, intensity) ==
    [toward |-> toward, distance |-> distance, color |-> color, intensity |-> intensity]

\* main.rs 593-597
light1 == Light(<<0, 5, 0>>, 10^5, <<1000, 700, 500>>, 1300)

\* main.rs 601-611: the light of an emissive primitive
emissive_light == Light(<<3, 4, 0>>, 3 * 10^4, lamp.emission, lamp.emission_strength * 2)

\* the lights and the skybox of the run
Worlds == {<<<<light1>>, "none">>, <<<<light1, emissive_light>>, "assets/nether_skybox.png">>}

ShadowEnvs == {"clear", "near", "at", "far", "nan"}

\* what the BVH answers to the shadow ray toward the light (main.rs 150)
shadow_answer(env, light) ==
    IF env = "clear" THEN IntersectEmpty
    ELSE IntersectNew(stone,
                      IF env = "near" THEN light.distance - 5 * 100
                      ELSE IF env = "at" THEN light.distance
                      ELSE IF env = "far" THEN light.distance + 5 * 100
                      ELSE NaN,
                      <<0, -5, 0>>, VZero, <<0, 1>>, <<0, 1>>)

PrimaryDirections == {<<4, -3, 0>>, <<3, -4, 0>>, <<0, -5, 0>>}

\* camera.eye
Eye == <<0, 10^4, 0>>

NewCall(origin, dir, depth) ==
    [depth |-> depth, ray_origin |-> origin, ray_direction |-> dir, pc |-> "enter",
     queried |-> FALSE, intersect |-> IntersectEmpty, light |-> 1,
     total_diffuse |-> VZero, total_specular |-> VZero,
     reflected |-> FALSE, reflection_color |-> VZero,
     refracted |-> FALSE, refract_direction |-> VZero, tir |-> FALSE,
     refraction_color |-> VZero]

Top == stack[Len(stack)]

InitShade ==
    /\ cubes = <<>>
    /\ indices = <<>>
    /\ bvh = NoTree
    /\ bpc = "none"
    /\ ray_origin = VZero
    /\ ray_direction = VZero
    /\ bvh_hit = IntersectEmpty
    /\ prim_hits = <<>>
    /\ box_hits = <<>>
    /\ camera = 0
    /\ frames = 0
    /\ \E w \in Worlds : lights = w[1] /\ skybox_texture = w[2]
    /\ NoFrame
    /\ stack = <<>>
    /\ calls = 0
    /\ returned = [depth |-> -1]
    /\ shadow_log = [cast |-> FALSE]
    /\ shadow_env \in ShadowEnvs
    /\ spc = "idle"
    /\ NoCall

\* main.rs 337-355: render_row_range calls cast_ray at depth 0
CastPrimary ==
    /\ spc = "idle"
    /\ \E dir \in PrimaryDirections : stack' = <<NewCall(Eye, dir, 0)>>
    /\ calls' = 1
    /\ spc' = "shading"
    /\ UNCHANGED <<callVars, bvhVars, sceneVars, renderVars, returned, shadow_log, shadow_env,
                   skybox_texture>>

\* the innermost invocation returns value: the caller, if there is one,
\* stores it as the colour of the branch it is waiting in
Deliver(frame, value) ==
    \E color \in {value} :
        /\ returned' = [frame |-> frame, value |-> color, depth |-> frame.depth]
        /\ IF Len(stack) = 1
           THEN /\ stack' = <<>>
                /\ spc' = "done"
           ELSE LET caller == stack[Len(stack) - 1]
                    resumed == IF caller.pc = "reflecting"
                               THEN [caller EXCEPT !.reflection_color = color, !.pc = "refract"]
                               ELSE [caller EXCEPT !.refraction_color = color, !.pc = "finish"]
                IN  /\ stack' = Append(SubSeq(stack, 1, Len(stack) - 2), resumed)
                    /\ UNCHANGED spc

\* main.rs 182-184
DepthLimit ==
    /\ spc = "shading"
    /\ Top.pc = "enter"
    /\ depth_exceeded(Top.depth)
    /\ Deliver(Top, procedural_sky(Top.ray_direction, skybox_texture))
    /\ UNCHANGED <<callVars, bvhVars, sceneVars, renderVars, calls, shadow_log, shadow_env, skybox_texture>>

\* main.rs 186-196: the BVH query misses
Miss ==
    /\ spc = "shading"
    /\ Top.pc = "enter"
    /\ ~depth_exceeded(Top.depth)
    /\ IntersectEmpty \in Surfaces(Top.ray_origin, Top.ray_direction)
    /\ Deliver([Top EXCEPT !.queried = TRUE], procedural_sky(Top.ray_direction, skybox_texture))
    /\ UNCHANGED <<callVars, bvhVars, sceneVars, renderVars, calls, shadow_log, shadow_env, skybox_texture>>

\* main.rs 186-202: the BVH query hits
Hit ==
    /\ spc = "shading"
    /\ Top.pc = "enter"
    /\ ~depth_exceeded(Top.depth)
    /\ \E intersect \in Surfaces(Top.ray_origin, Top.ray_direction) :
          /\ intersect.is_intersecting
          /\ stack' = [stack EXCEPT ![Len(stack)] =
                          [Top EXCEPT !.queried = TRUE, !.intersect = intersect, !.pc = "lights"]]
    /\ UNCHANGED <<callVars, bvhVars, sceneVars, renderVars, calls, returned, shadow_log, shadow_env,
                   skybox_texture, spc>>

\* main.rs 198
view_direction(frame) ==
    IF HasNaN(frame.intersect.point) THEN NaNVec
    ELSE normalized(<<frame.ray_origin[1] - frame.intersect.point[1],
                      frame.ray_origin[2] - frame.intersect.point[2],
                      frame.ray_origin[3] - frame.intersect.point[3]>>)

\* main.rs 207: normal.dot(light_direction).max(0.0); the dot product with a
\* NaN point is NaN and f32::max returns the other operand
diffuse_intensity_of(intersect, light) ==
    IF HasNaN(intersect.point) THEN 0
    ELSE IF DotMilli(intersect.normal, light.toward) < 0 THEN 0
    ELSE DotMilli(intersect.normal, light.toward)

\* main.rs 205-225: what one pass of the light loop computes for its light,
\* given what the BVH answers to the shadow ray
light_terms(frame, light, shadow_hit) ==
    LET intersect == frame.intersect
        shadow_intensity == cast_shadow(shadow_hit, light.distance)
        light_intensity == Cmul(light.intensity, Milli - shadow_intensity)
        final_diffuse_intensity == Cmul(diffuse_intensity_of(intersect, light), light_intensity)
        reflection_direction == normalized(reflect(VNeg(light.toward), intersect.normal))
        facing == DotMilli(view_direction(frame), reflection_direction)
        specular_base == Only({powf(IF f < 0 THEN 0 ELSE f, intersect.material.specular)
                               : f \in {facing}})
    IN  [cast |-> TRUE, origin |-> shadow_origin(intersect), point |-> intersect.point,
         normal |-> intersect.normal, direction |-> light.toward, shadow_hit |-> shadow_hit,
         light_distance |-> light.distance, shadow_intensity |-> shadow_intensity,
         light |-> light, light_intensity |-> light_intensity,
         diffuse_intensity |-> diffuse_intensity_of(intersect, light),
         diffuse_added |-> VScale(light.color, final_diffuse_intensity),
         specular_base |-> specular_base,
         specular_added |-> VScale(light.color, Cmul(specular_base, light_intensity))]

\* main.rs 204-226: one pass of the light loop
LightPass ==
    /\ spc = "shading"
    /\ Top.pc = "lights"
    /\ Top.light <= Len(lights)
    /\ IF diffuse_intensity_of(Top.intersect, lights[Top.light]) < 10
       THEN /\ stack' = [stack EXCEPT ![Len(stack)].light = @ + 1]
            /\ UNCHANGED shadow_log
       ELSE \E terms \in {light_terms(Top, lights[Top.light],
                                      shadow_answer(shadow_env, lights[Top.light]))} :
              /\ stack' = [stack EXCEPT ![Len(stack)] =
                     [Top EXCEPT !.light = @ + 1,
                                 !.total_diffuse = VAdd(@, terms.diffuse_added),
                                 !.total_specular = VAdd(@, terms.specular_added)]]
              /\ shadow_log' = terms
    /\ UNCHANGED <<callVars, bvhVars, sceneVars, renderVars, calls, returned, shadow_env, skybox_texture, spc>>

\* a branch threshold that lets 0.05 itself through
takes_branch_from(weight) == weight >= 50

\* main.rs 248, 266: reflectivity > 0.05, transparency > 0.05
takes_branch(weight) == weight > 50

LightsDone(frame) == frame.pc = "lights" /\ frame.light > Len(lights)

\* main.rs 245-261: the reflection branch is taken
ReflectCall ==
    /\ spc = "shading"
    /\ LightsDone(Top)
    /\ takes_branch(Top.intersect.material.reflectivity)
    /\ LET reflect_direction == reflect(Top.ray_direction, Top.intersect.normal)
           reflect_origin == Along(Top.intersect.point, Top.intersect.normal, ORIGIN_BIAS)
       IN  stack' = Append([stack EXCEPT ![Len(stack)] =
                               [Top EXCEPT !.pc = "reflecting", !.reflected = TRUE]],
                           NewCall(reflect_origin, reflect_direction, Top.depth + 1))
    /\ calls' = calls + 1
    /\ UNCHANGED <<callVars, bvhVars, sceneVars, renderVars, returned, shadow_log, shadow_env,
                   skybox_texture, spc>>

\* main.rs 248: the reflection branch is not taken
ReflectSkip ==
    /\ spc = "shading"
    /\ LightsDone(Top)
    /\ ~takes_branch(Top.intersect.material.reflectivity)
    /\ stack' = [stack EXCEPT ![Len(stack)].pc = "refract"]
    /\ UNCHANGED <<callVars, bvhVars, sceneVars, renderVars, calls, returned, shadow_log, shadow_env,
                   skybox_texture, spc>>

\* main.rs 263-280: the refraction branch is taken
RefractCall ==
    /\ spc = "shading"
    /\ Top.pc = "refract"
    /\ takes_branch(Top.intersect.material.transparency)
    /\ \E refract_direction \in {refract(Top.ray_direction, Top.intersect.normal,
                                            Top.intersect.material.refractive_index)},
          sn \in {snell(Top.ray_direction, Top.intersect.normal,
                        Top.intersect.material.refractive_index)} :
         LET refract_origin == offset_origin(Top.intersect, refract_direction)
         IN  stack' = Append([stack EXCEPT ![Len(stack)] =
                                 [Top EXCEPT !.pc = "refracting", !.refracted = TRUE,
                                             !.refract_direction = refract_direction,
                                             !.tir = (sn.ed # 0 /\ sn.kn < 0)]],
                             NewCall(refract_origin, refract_direction, Top.depth + 1))
    /\ calls' = calls + 1
    /\ UNCHANGED <<callVars, bvhVars, sceneVars, renderVars, returned, shadow_log, shadow_env,
                   skybox_texture, spc>>

\* main.rs 266: the refraction branch is not taken
RefractSkip ==
    /\ spc = "shading"
    /\ Top.pc = "refract"
    /\ ~takes_branch(Top.intersect.material.transparency)
    /\ stack' = [stack EXCEPT ![Len(stack)].pc = "finish"]
    /\ UNCHANGED <<callVars, bvhVars, sceneVars, renderVars, calls, returned, shadow_log, shadow_env,
                   skybox_texture, spc>>

\* main.rs 228-240
diffuse_color_of(intersect) ==
    IF intersect.material.texture # "none" /\ get_texture(intersect.material.texture)
    THEN get_pixel_color(intersect.material.texture)
    ELSE intersect.material.diffuse

\* main.rs 282-292: the colour the invocation returns
shade(frame) ==
    LET material == frame.intersect.material
        diffuse_color == diffuse_color_of(frame.intersect)
        diffuse == VMul(diffuse_color, frame.total_diffuse)
        specular == frame.total_specular
        emissive == IF material.emission_strength > 10
                    THEN VScale(VMul(diffuse_color, material.emission), material.emission_strength)
                    ELSE VZero
    IN  VAdd(VAdd(VAdd(VAdd(VScale(diffuse, material.albedo[1]),
                            VScale(specular, material.albedo[2])),
                       VScale(frame.reflection_color, material.reflectivity)),
                  VScale(frame.refraction_color, material.transparency)),
             emissive)

\* main.rs 282-293
Finish ==
    /\ spc = "shading"
    /\ Top.pc = "finish"
    /\ Deliver(Top, shade(Top))
    /\ UNCHANGED <<callVars, bvhVars, sceneVars, renderVars, calls, shadow_log, shadow_env, skybox_texture>>

NextShade ==
    \/ CastPrimary
    \/ DepthLimit
    \/ Miss
    \/ Hit
    \/ LightPass
    \/ ReflectCall
    \/ ReflectSkip
    \/ RefractCall
    \/ RefractSkip
    \/ Finish

SpecShade == InitShade /\ [][NextShade]_vars

\* cast_ray runs on a worker thread that the scheduler keeps running
SpecShadeLive == SpecShade /\ WF_vars(NextShade)

\* ------------------------------------------------------------------------
\* The frame loop of main (main.rs 618-661) around render.  rpc is "loop" at
\* the head of the loop and "input" at the key tests; the camera is its pose,
\* counted in steps of rotation_speed and zoom_speed from the pose of
\* Camera::new: yaw steps, ten times the pitch steps, a hundred times the
\* zoom steps
\* ------------------------------------------------------------------------
MaxFrames == 2

InitFrame ==
    /\ cubes = <<>>
    /\ indices = <<>>
    /\ bvh = NoTree
    /\ bpc = "none"
    /\ ray_origin = VZero
    /\ ray_direction = VZero
    /\ bvh_hit = IntersectEmpty
    /\ prim_hits = <<>>
    /\ box_hits = <<>>
    /\ camera = 1
    /\ lights \in {1, 2}
    /\ frames = 0
    /\ fb_width = 1
    /\ fb_height = 2
    /\ color_buffer = [p \in Pixels(fb_width, fb_height) |-> BLACK]
    /\ current_color = WHITE
    /\ num_threads \in 1..2
    /\ rows_per_thread = 0
    /\ rpc = "loop"
    /\ thread_id = 0
    /\ handles = <<>>
    /\ results = <<>>
    /\ cursor = [range |-> 0, y |-> 0, x |-> 0, pixel_idx |-> 0]
    /\ writes = [p \in Pixels(fb_width, fb_height) |-> 0]
    /\ dropped = 0
    /\ NoShade
    /\ NoCall

\* main.rs 618-619: the window stays open and framebuffer.clear() runs
Clear ==
    /\ rpc = "loop"
    /\ frames < MaxFrames
    /\ frames' = frames + 1
    /\ color_buffer' = [p \in DOMAIN color_buffer |-> Background]
    /\ rpc' = "input"
    /\ UNCHANGED <<callVars, bvhVars, shadeVars, camera, lights, fb_width, fb_height,
                   current_color, num_threads, rows_per_thread, thread_id, handles, results,
                   cursor, writes, dropped>>

\* the key tests, run as the workers of render are being joined
CameraUpdateLate ==
    /\ rpc \in {"input", "join"}
    /\ \E down \in SUBSET {"LEFT", "RIGHT", "UP", "DOWN", "W", "S"} : camera' = camera + Cardinality(down)
    /\ rpc' = IF rpc = "input" THEN "entry" ELSE rpc
    /\ UNCHANGED <<callVars, bvhVars, shadeVars, lights, frames, fb_width, fb_height,
                   color_buffer, current_color, num_threads, rows_per_thread, thread_id,
                   handles, results, cursor, writes, dropped>>

\* main.rs 621-638: the six key tests in order, each calling camera.orbit
\* or camera.zoom when its key is down; render is entered next
CameraUpdate ==
    /\ rpc = "input"
    /\ \E down \in SUBSET {"LEFT", "RIGHT", "UP", "DOWN", "W", "S"} :
          LET orbit(cam, yaw, pitch) == cam + yaw + 10 * pitch
              zoom(cam, amount) == cam + 100 * amount
              c1 == IF "LEFT" \in down THEN orbit(camera, 1, 0) ELSE camera
              c2 == IF "RIGHT" \in down THEN orbit(c1, -1, 0) ELSE c1
              c3 == IF "UP" \in down THEN orbit(c2, 0, -1) ELSE c2
              c4 == IF "DOWN" \in down THEN orbit(c3, 0, 1) ELSE c3
              c5 == IF "W" \in down THEN zoom(c4, 1) ELSE c4
              c6 == IF "S" \in down THEN zoom(c5, -1) ELSE c5
          IN  camera' = c6
    /\ rpc' = "entry"
    /\ UNCHANGED <<callVars, bvhVars, shadeVars, lights, frames, fb_width, fb_height,
                   color_buffer, current_color, num_threads, rows_per_thread, thread_id,
                   handles, results, cursor, writes, dropped>>

\* main.rs 649-660: render has returned and its locals are gone;
\* framebuffer.swap_buffers shows the image and the loop starts over
SwapBuffers ==
    /\ rpc = "done"
    /\ rpc' = "loop"
    /\ rows_per_thread' = 0
    /\ thread_id' = 0
    /\ handles' = <<>>
    /\ results' = <<>>
    /\ cursor' = [range |-> 0, y |-> 0, x |-> 0, pixel_idx |-> 0]
    /\ writes' = [p \in DOMAIN writes |-> 0]
    /\ UNCHANGED <<callVars, bvhVars, shadeVars, sceneVars, fb_width, fb_height, color_buffer,
                   current_color, num_threads, dropped>>

NextFrame ==
    \/ Clear
    \/ CameraUpdate
    \/ NextRender
    \/ SwapBuffers

SpecFrame == InitFrame /\ [][NextFrame]_vars

\* ------------------------------------------------------------------------
\* main from the scene file to the frame loop (main.rs 554-618).  A line of
\* scene.txt is <<"blank">>, <<"comment">> (it starts with '#'), <<"short">>
\* (not five fields), <<"unknown">> (five fields, a material that is not in
\* the table) or <<"cube", k>>, a well-formed line for Catalogue[k]; args holds
\* the file, <<"absent">> or <<"file", lines>>, until it has been read
\* ------------------------------------------------------------------------
MaxLines == 2

InitMain ==
    /\ cubes = <<>>
    /\ indices = <<>>
    /\ bvh = NoTree
    /\ bpc = "file"
    /\ ray_origin = VZero
    /\ ray_direction = VZero
    /\ bvh_hit = IntersectEmpty
    /\ prim_hits = <<>>
    /\ box_hits = <<>>
    /\ camera = 1
    /\ lights = 1
    /\ frames = 0
    /\ fb_width = 1
    /\ fb_height = 1
    /\ color_buffer = [p \in Pixels(fb_width, fb_height) |-> BLACK]
    /\ current_color = WHITE
    /\ num_threads = 1
    /\ rows_per_thread = 0
    /\ rpc = "none"
    /\ thread_id = 0
    /\ handles = <<>>
    /\ results = <<>>
    /\ cursor = [range |-> 0, y |-> 0, x |-> 0, pixel_idx |-> 0]
    /\ writes = [p \in Pixels(fb_width, fb_height) |-> 0]
    /\ dropped = 0
    /\ NoShade
    /\ fn = "load_scene_from_file"
    /\ LET Lines == {<<"blank">>, <<"comment">>, <<"short">>, <<"unknown">>,
                    <<"cube", 1>>, <<"cube", 2>>}
       IN  \/ args = <<"absent">>
           \/ \E n \in 0..MaxLines : \E lines \in [1..n -> Lines] : args = <<"file", lines>>
    /\ result = <<>>
    /\ cpc = "call"

\* a loader that falls back to the default scene when the file has no cube
load_or_default(file) ==
    IF file[1] = "file" /\ \A k \in 1..Len(file[2]) : file[2][k][1] = "cube"
                       /\ Len(file[2]) > 0
    THEN [ok |-> TRUE, cubes |-> [k \in 1..Len(file[2]) |-> Catalogue[file[2][k][2]]]]
    ELSE [ok |-> FALSE, cubes |-> Pick(1..MaxCubes, 1)]

\* main.rs 41-98 and 554-579: load_scene_from_file skips blank and comment
\* lines, returns Err at the first line that does not parse and Ok with the
\* cubes of the other lines otherwise; main takes the default scene, here
\* the first MaxCubes boxes of the catalogue, when the file is absent or the
\* loader returned Err
load_scene(file) ==
    IF file[1] = "absent" THEN [ok |-> FALSE, cubes |-> Pick(1..MaxCubes, 1)]
    ELSE LET lines == file[2]
             bad == {k \in 1..Len(lines) : lines[k][1] \in {"short", "unknown"}}
             kept == SelectSeq(lines, LAMBDA l : l[1] \notin {"blank", "comment"})
         IN  IF bad # {} THEN [ok |-> FALSE, cubes |-> Pick(1..MaxCubes, 1)]
             ELSE [ok |-> TRUE, cubes |-> [k \in 1..Len(kept) |-> Catalogue[kept[k][2]]]]

\* main.rs 554-581: objects, and indices = (0..objects.len()).collect()
LoadScene ==
    /\ bpc = "file"
    /\ cpc = "call"
    /\ result' = load_scene(args)
    /\ cubes' = result'.cubes
    /\ indices' = [k \in 1..Len(cubes') |-> k - 1]
    /\ bpc' = "scene"
    /\ cpc' = "done"
    /\ args' = <<>>
    /\ UNCHANGED <<fn, bvh, ray_origin, ray_direction, bvh_hit, prim_hits, box_hits,
                   sceneVars, renderVars, shadeVars>>

\* main.rs 584-618: the build has returned and main reaches the frame loop
EnterLoop ==
    /\ bpc = "built"
    /\ rpc = "none"
    /\ rpc' = "loop"
    /\ UNCHANGED <<callVars, bvhVars, shadeVars, sceneVars, fb_width, fb_height, color_buffer,
                   current_color, num_threads, rows_per_thread, thread_id, handles, results,
                   cursor, writes, dropped>>

NextMain ==
    \/ LoadScene
    \/ Build
    \/ EnterLoop
    \/ NextFrame

SpecMain == InitMain /\ [][NextMain]_vars

\* ------------------------------------------------------------------------
\* cast_shadow toward the light of an emissive primitive, in a scene that
\* holds one: the build, a ray that finds a surface point, then
\* cast_shadow(intersect, light, bvh, objects) for that point.  lights holds
\* the positions of the lights of main.rs 601-611.  The scenes are those of
\* the catalogue and two more, in which a third box lies between the first
\* and the third catalogue box with its face x = max in the plane x = 10 of
\* their centres
\* ------------------------------------------------------------------------
InitShadow ==
    /\ LET grazing == MkCube(<<-10, 24, 0>>, <<10, 36, 20>>)
           between == {<<Catalogue[1], Catalogue[3], grazing>>,
                       <<Catalogue[1], grazing, Catalogue[3]>>}
       IN  \E scene \in {sc \in Scenes : Len(sc) >= 2} \cup between : \E e \in 1..Len(scene) :
              cubes = [scene EXCEPT ![e].material = lamp]
    /\ indices = [k \in 1..Len(cubes) |-> k - 1]
    /\ bvh = NoTree
    /\ bpc = "scene"
    /\ ray_origin = VZero
    /\ ray_direction = VZero
    /\ bvh_hit = IntersectEmpty
    /\ prim_hits = <<>>
    /\ box_hits = <<>>
    /\ camera = 0
    /\ lights = [k \in 1..1 |->
                   center(from_cube(cubes[CHOOSE i \in 1..Len(cubes) :
                                             cubes[i].material.emission_strength > 0]))]
    /\ frames = 0
    /\ NoFrame
    /\ NoShade
    /\ fn = "cast_shadow"
    /\ args = <<>>
    /\ result = <<>>
    /\ cpc = "none"

\* main.rs 145-159 for the surface point the ray found.  The step is taken
\* for the points from which the light lies along an axis: the normalized
\* direction and the length of light.position - intersect.point are then
\* exact
CastShadow ==
    /\ bpc = "queried"
    /\ cpc = "none"
    /\ bvh_hit.is_intersecting
    /\ ~HasNaN(bvh_hit.point)
    /\ \E toward \in {<<lights[1][1] - bvh_hit.point[1], lights[1][2] - bvh_hit.point[2],
                         lights[1][3] - bvh_hit.point[3]>>} :
          /\ Cardinality({a \in 1..3 : toward[a] # 0}) = 1
          /\ \E light_dir \in {<<FSign(toward[1]), FSign(toward[2]), FSign(toward[3])>>},
                origin \in {shadow_origin(bvh_hit)} :
                \E shadow_hit \in {bvh_intersect(bvh, cubes, origin, light_dir, InvDir(light_dir))},
                   light_distance \in {FAbs(toward[1] + toward[2] + toward[3])} :
                   /\ args' = <<bvh_hit, lights[1]>>
                   /\ ray_origin' = origin
                   /\ ray_direction' = light_dir
                   /\ bvh_hit' = shadow_hit
                   /\ result' = cast_shadow(shadow_hit, light_distance)
    /\ cpc' = "done"
    /\ bpc' = "shadowed"
    /\ UNCHANGED <<fn, cubes, indices, bvh, prim_hits, box_hits, sceneVars, renderVars, shadeVars>>

NextShadow ==
    \/ Build
    \/ \E o \in Origins, d \in Directions : Intersect(o, d)
    \/ CastShadow

SpecShadow == InitShadow /\ [][NextShadow]_vars

\* ------------------------------------------------------------------------
\* One call of a library function on arguments of the caller's choice
\* ------------------------------------------------------------------------
\* refract is called on unit vectors in fifths (the axes and the 3-4-5
\* directions), the normals Cube::ray_intersect hands out (cube.rs 90-97) and
\* the refractive indices 4/3 and 5/4; merge on boxes with corners on a small
\* grid, min above max included; the axis choice on boxes of every extent
InitCalls ==
    /\ cubes = <<>>
    /\ indices = <<>>
    /\ bvh = NoTree
    /\ bpc = "none"
    /\ ray_origin = VZero
    /\ ray_direction = VZero
    /\ bvh_hit = IntersectEmpty
    /\ prim_hits = <<>>
    /\ box_hits = <<>>
    /\ NoRender
    /\ NoShade
    /\ LET Fifths == -5..5
           UnitFifths ==
               {v \in Fifths \X Fifths \X Fifths : v[1] * v[1] + v[2] * v[2] + v[3] * v[3] = 25}
           CubeNormals ==
               {VZero, <<-5, 0, 0>>, <<5, 0, 0>>, <<0, -5, 0>>, <<0, 5, 0>>, <<0, 0, -5>>, <<0, 0, 5>>}
           RefractiveIndices == {<<4, 3>>, <<5, 4>>}
           GridBoxes ==
               {[min |-> <<x1, y1, 0>>, max |-> <<x2, y2, 1>>] :
                   x1 \in 0..2, x2 \in 0..2, y1 \in 0..1, y2 \in 1..2}
           ExtentBoxes ==
               {[min |-> <<1, 1, 1>>, max |-> <<1 + ex, 1 + ey, 1 + ez>>] :
                   ex \in 0..3, ey \in 0..3, ez \in 0..3}
       IN  \/ fn = "refract" /\ args \in UnitFifths \X CubeNormals \X RefractiveIndices
           \/ fn = "merge" /\ args \in GridBoxes \X GridBoxes \X GridBoxes
           \/ fn = "axis" /\ args \in {<<b>> : b \in ExtentBoxes}
    /\ result = <<>>
    /\ cpc = "call"

\* refract(incident, normal, refractive_index)
CallRefract ==
    /\ cpc = "call"
    /\ fn = "refract"
    /\ result' = refract(args[1], args[2], args[3])
    /\ cpc' = "done"
    /\ UNCHANGED <<fn, args, bvhVars, sceneVars, renderVars, shadeVars>>

\* a.merge(&b) in both orders, and the two ways of merging three boxes
CallMerge ==
    /\ cpc = "call"
    /\ fn = "merge"
    /\ result' = [ab |-> merge(args[1], args[2]),
                  ba |-> merge(args[2], args[1]),
                  ab_c |-> merge(merge(args[1], args[2]), args[3]),
                  a_bc |-> merge(args[1], merge(args[2], args[3]))]
    /\ cpc' = "done"
    /\ UNCHANGED <<fn, args, bvhVars, sceneVars, renderVars, shadeVars>>

\* the axis BVHNode::build splits a slice of these bounds on
CallAxis ==
    /\ cpc = "call"
    /\ fn = "axis"
    /\ result' = split_axis(args[1])
    /\ cpc' = "done"
    /\ UNCHANGED <<fn, args, bvhVars, sceneVars, renderVars, shadeVars>>

NextCalls ==
    \/ CallRefract
    \/ CallMerge
    \/ CallAxis

SpecCalls == InitCalls /\ [][NextCalls]_vars

\* ========================================================================
\* Properties of the BVH (SpecBvh)
\* ========================================================================
HitSet == { i \in 1..Len(prim_hits) : prim_hits[i].is_intersecting }

\* C1: for every set of N >= 1 non-overlapping boxes, every tree built from
\* it and every ray, BVHNode::intersect reports a hit exactly when some
\* primitive's Cube::ray_intersect does, and then at the minimum of the
\* primitives' distances.
C1_BvhEqualsBruteForce ==
    bpc \in {"tested", "slabbed"} =>
        /\ bvh_hit.is_intersecting <=> HitSet # {}
        /\ HitSet # {} =>
              /\ \E i \in HitSet : prim_hits[i].distance = bvh_hit.distance
              /\ \A i \in HitSet : ~FLt(prim_hits[i].distance, bvh_hit.distance)

RECURSIVE BoundsExact(_)
BoundsExact(node) ==
    IF node.kind = "Leaf"
    THEN node.bounds = [min |-> At(cubes, node.object_idx).min_bounds,
                        max |-> At(cubes, node.object_idx).max_bounds]
    ELSE /\ node.bounds = merge(node.left.bounds, node.right.bounds)
         /\ BoundsExact(node.left)
         /\ BoundsExact(node.right)

\* C7: in every tree BVHNode::build returns, an Internal node's bounds is
\* exactly the merge of its two children's bounds and a Leaf's bounds is
\* exactly the (min_bounds, max_bounds) of the primitive it refers to.
C7_BoundsExact == bvh # NoTree => BoundsExact(bvh)

\* a built tree three levels deep: an Internal node over an Internal node
C7_Witness ==
    /\ bpc = "built"
    /\ bvh.kind = "Internal"
    /\ bvh.right.kind = "Internal"
    /\ bvh.left.kind = "Leaf"

\* the ray's point at parameter t lies in the closed box
Meets(cube, o, d, t) ==
    \A i \in 1..3 : /\ cube.min_bounds[i] <= o[i] + t * d[i]
                    /\ o[i] + t * d[i] <= cube.max_bounds[i]

\* every coordinate of the inputs lies within this distance of every other,
\* so a ray parameter at which the line meets a box is within -TMax..TMax
TMax == 100

\* the origin is outside the box and the line meets the box only behind it
PointsAway(cube, o, d) ==
    /\ \E t \in 1..TMax : Meets(cube, o, d, -t)
    /\ \A t \in 0..TMax : ~Meets(cube, o, d, t)

\* C9: AABB::intersect returns false for every ray that points away from the
\* box (origin outside, the line meets the box only at negative parameters).
C9_AwayIsMiss ==
    bpc = "slabbed" =>
        \A i \in 1..Len(cubes) :
            PointsAway(cubes[i], ray_origin, ray_direction) => ~box_hits[i]

\* the ray parameter at which the ray, whose origin is in the box, leaves it
ExitsAt(cube, o, d, t) ==
    \/ t = PInf /\ \A u \in 0..TMax : Meets(cube, o, d, u)
    \/ IsFinite(t) /\ Meets(cube, o, d, t) /\ ~Meets(cube, o, d, t + 1)

\* the smallest positive ray parameter at which the ray meets the box
EntersAt(cube, o, d, t) ==
    /\ IsFinite(t)
    /\ Meets(cube, o, d, t)
    /\ \A u \in 1..(t - 1) : ~Meets(cube, o, d, u)

\* C11: a populated hit of Cube::ray_intersect has a distance greater than
\* the self-intersection epsilon 0.001, and the distance is the smallest
\* positive parameter at which the ray meets the box when the origin is
\* outside the box, the exit parameter when the origin is inside.
C11_DistanceIsNearestRoot ==
    bpc \in {"tested", "slabbed"} =>
        \A i \in 1..Len(cubes) :
            prim_hits[i].is_intersecting =>
                /\ FGt(prim_hits[i].distance, HitEps)
                /\ IF Meets(cubes[i], ray_origin, ray_direction, 0)
                   THEN ExitsAt(cubes[i], ray_origin, ray_direction, prim_hits[i].distance)
                   ELSE EntersAt(cubes[i], ray_origin, ray_direction, prim_hits[i].distance)

\* the object_idx of the leaves of a tree, and how many leaves it has
RECURSIVE LeafIndices(_)
LeafIndices(node) ==
    IF node.kind = "Leaf" THEN {node.object_idx}
    ELSE LeafIndices(node.left) \cup LeafIndices(node.right)

RECURSIVE LeafCount(_)
LeafCount(node) ==
    IF node.kind = "Leaf" THEN 1 ELSE LeafCount(node.left) + LeafCount(node.right)

\* C14: for a primitive set of n >= 1 elements, the trees built from any two
\* permutations of the index slice have the same root bounds and the same
\* set of leaf object_idx, and every index 0..n-1 is in exactly one leaf.
C14_PermutationInvariant ==
    bpc = "built" =>
        /\ LeafIndices(bvh) = 0..(Len(cubes) - 1)
        /\ LeafCount(bvh) = Len(cubes)
        /\ \A p \in IndexOrders(Len(cubes)) :
              \E other \in {build(cubes, p).node} :
                 /\ other.bounds = bvh.bounds
                 /\ LeafIndices(other) = LeafIndices(bvh)
                 /\ LeafCount(other) = Len(cubes)

\* a tree of the largest scene that another order of the slice builds differently
C14_Witness ==
    /\ bpc = "built"
    /\ Len(cubes) = MaxCubes
    /\ \E p \in IndexOrders(Len(cubes)) : build(cubes, p).node # bvh

RECURSIVE Depth(_)
Depth(node) ==
    IF node.kind = "Leaf" THEN 0
    ELSE 1 + (IF Depth(node.left) > Depth(node.right) THEN Depth(node.left)
              ELSE Depth(node.right))

\* ceil(log2(n)) for n >= 1
RECURSIVE CeilLog2(_)
CeilLog2(n) == IF n <= 1 THEN 0 ELSE 1 + CeilLog2((n + 1) \div 2)

RECURSIVE HalvesEverywhere(_)
HalvesEverywhere(node) ==
    node.kind = "Internal" =>
        /\ LeafCount(node.left) = LeafCount(node) \div 2
        /\ LeafCount(node.right) = (LeafCount(node) + 1) \div 2
        /\ HalvesEverywhere(node.left)
        /\ HalvesEverywhere(node.right)

\* C15: the tree built for n primitives has depth exactly ceil(log2(n)), a
\* tree of one leaf having depth 0, and at every Internal node over m leaves
\* the left child holds floor(m/2) of them and the right child ceil(m/2).
C15_BalancedSplit ==
    bpc = "built" =>
        /\ Depth(bvh) = CeilLog2(Len(cubes))
        /\ HalvesEverywhere(bvh)

\* a tree over an odd number of primitives, where the two halves differ
C15_Witness ==
    /\ bpc = "built"
    /\ LeafCount(bvh) % 2 = 1
    /\ Depth(bvh) >= 2

\* the slice holds the same indices, each as often
SamePermutation(a, b) ==
    /\ Len(a) = Len(b)
    /\ \A x \in 0..MaxCubes :
          Cardinality({k \in 1..Len(a) : a[k] = x}) = Cardinality({k \in 1..Len(b) : b[k] = x})

\* C16: after BVHNode::build the index slice is a permutation of what it
\* held before the call, and the primitive list is unchanged.
C16_BuildPermutes ==
    [][(bpc = "scene" /\ bpc' = "built") =>
          (SamePermutation(indices', indices) /\ cubes' = cubes)]_vars

\* a build that reordered the slice
C16_Witness ==
    /\ bpc = "built"
    /\ Len(indices) = MaxCubes
    /\ indices # [k \in 1..Len(indices) |-> k - 1]

\* the outward normals of the six faces of a box
FaceNormals ==
    {<<-1, 0, 0>>, <<1, 0, 0>>, <<0, -1, 0>>, <<0, 1, 0>>, <<0, 0, -1>>, <<0, 0, 1>>}

\* the slab equation of the face with outward normal n gives the parameter t:
\* the ray crosses the plane of that face at t
StruckAt(cube, o, d, n, t) ==
    \E a \in 1..3 :
        /\ n[a] # 0
        /\ d[a] # 0
        /\ IsFinite(t)
        /\ o[a] + t * d[a] = (IF n[a] < 0 THEN cube.min_bounds[a] ELSE cube.max_bounds[a])

\* C12: a populated hit of Cube::ray_intersect carries a normal with exactly
\* one component +1 or -1 and the others 0, and it is the outward normal of
\* the face whose slab equation produced the hit distance.
C12_NormalIsStruckFace ==
    bpc \in {"tested", "slabbed"} =>
        \A i \in 1..Len(cubes) :
            prim_hits[i].is_intersecting =>
                /\ prim_hits[i].normal \in FaceNormals
                /\ StruckAt(cubes[i], ray_origin, ray_direction, prim_hits[i].normal,
                            prim_hits[i].distance)

\* ========================================================================
\* Properties of the library functions (SpecCalls)
\* ========================================================================
\* C13: for a ray leaving a medium of refractive index above 1 (incident .
\* normal > 0), refract returns the zero vector whenever
\* k = 1 - eta^2 (1 - cosi^2) <= 0, the critical angle k = 0 included.
C13_ZeroAtCriticalAngle ==
    (cpc = "done" /\ fn = "refract") =>
        LET sn == snell(args[1], args[2], args[3])
        IN  (sn.leaving /\ args[3][1] > args[3][2] /\ sn.kn <= 0) => result = VZero

\* min <= max on every axis
ValidBox(b) == \A i \in 1..3 : b.min[i] <= b.max[i]

\* C18: AABB::merge is commutative and associative, its result contains both
\* operands (its min is at most the smaller min and its max at least the
\* larger max, on every axis), and it satisfies min <= max when both
\* operands do.
C18_MergeAlgebra ==
    (cpc = "done" /\ fn = "merge") =>
        /\ result.ab = result.ba
        /\ result.ab_c = result.a_bc
        /\ \A i \in 1..3 :
              /\ result.ab.min[i] <= args[1].min[i]
              /\ result.ab.min[i] <= args[2].min[i]
              /\ result.ab.max[i] >= args[1].max[i]
              /\ result.ab.max[i] >= args[2].max[i]
        /\ (ValidBox(args[1]) /\ ValidBox(args[2])) => ValidBox(result.ab)

\* two boxes with min <= max, neither containing the other, merged
C18_Witness ==
    /\ cpc = "done"
    /\ fn = "merge"
    /\ ValidBox(args[1])
    /\ ValidBox(args[2])
    /\ result.ab # args[1]
    /\ result.ab # args[2]
    /\ result.ab_c # result.ab

\* C19: the split axis has the largest extent of the three axes, ties going
\* to x before y and z, and to y before z.
C19_LargestExtentFirstWins ==
    (cpc = "done" /\ fn = "axis") =>
        LET extent == [i \in 1..3 |-> args[1].max[i] - args[1].min[i]]
            largest == {i \in 1..3 : \A j \in 1..3 : extent[i] >= extent[j]}
        IN  result + 1 = CHOOSE i \in largest : \A j \in largest : i <= j

\* the part of C19 that does not depend on ties: the split axis has the
\* largest extent
LargestExtent ==
    (cpc = "done" /\ fn = "axis") =>
        \A j \in 1..3 :
            args[1].max[result + 1] - args[1].min[result + 1] >= args[1].max[j] - args[1].min[j]

\* ========================================================================
\* Properties of render (SpecBands, SpecRender)
\* ========================================================================
SpawnLoopEnded == rpc \notin {"none", "entry", "spawn"}

BandRows(i) == <<handles[i].start_y, handles[i].end_y>>

BandsInRange ==
    \A i \in 1..Len(handles) :
        /\ 0 <= BandRows(i)[1]
        /\ BandRows(i)[1] < BandRows(i)[2]
        /\ BandRows(i)[2] <= fb_height

BandsDisjoint ==
    \A i, j \in 1..Len(handles) :
        i < j => \/ BandRows(i)[2] <= BandRows(j)[1]
                 \/ BandRows(j)[2] <= BandRows(i)[1]

\* the bands are intervals, so the least uncovered row, if there is one, is
\* row 0 or the row after the end of a band
BandsCover ==
    \A y \in {0} \cup {BandRows(i)[2] : i \in 1..Len(handles)} :
        y < fb_height => \E i \in 1..Len(handles) : BandRows(i)[1] <= y /\ y < BandRows(i)[2]

\* C2: once the spawn loop has ended, the row bands handed to the workers
\* are pairwise disjoint and together cover every row of [0, height), for
\* every height >= 0 and every num_threads >= 1.
C2_BandsPartition == SpawnLoopEnded => BandsInRange /\ BandsDisjoint /\ BandsCover

\* the colour render has to leave at pixel p
rendered(p) == vector3_to_color(camera_ray_color(camera, lights, p[1], p[2]))

\* the framebuffer render leaves when it runs with one band (num_threads = 1)
single_band_frame ==
    LET rows == rows_per_thread_of(fb_height, 1)
        end_y == IF rows < fb_height THEN rows ELSE fb_height
    IN  [p \in DOMAIN color_buffer |-> IF p[2] < end_y THEN rendered(p) ELSE Background]

\* C3: when render returns, the framebuffer it leaves with N row bands is
\* the framebuffer the single-band render leaves, whatever the order in
\* which the workers ran and completed.
C3_SameAsSingleBand == rpc = "done" => color_buffer = single_band_frame

AllJoined ==
    /\ Len(results) = Len(handles)
    /\ \A i \in 1..Len(handles) : handles[i].finished

\* C5: a step that writes the framebuffer is taken only after the spawn loop
\* has ended and every worker has returned and been joined, and it is not a
\* worker's step: the steps of the workers change their own pixel vectors
\* and never the framebuffer.  No step of render changes the BVH, the
\* primitive list, the lights or the camera.
C5_JoinBarrier ==
    [][/\ (color_buffer' # color_buffer \/ writes' # writes \/ current_color' # current_color)
           => (rpc = "write" /\ AllJoined /\ handles' = handles)
       /\ <<cubes, indices, bvh, lights, camera>>' = <<cubes, indices, bvh, lights, camera>>]_vars

C5_Witness ==
    /\ rpc = "write"
    /\ Len(handles) >= 2
    /\ \E p \in DOMAIN writes : writes[p] = 1
    /\ \E p \in DOMAIN writes : writes[p] = 0

\* C6: render never indexes a pixel vector out of range and never asks
\* set_pixel for a pixel outside the framebuffer; no pixel is written twice;
\* and when render returns every pixel (x, y) has been written exactly once,
\* with vector3_to_color of the colour cast_ray returned for (x, y).
C6_EveryPixelOnce ==
    /\ rpc # "panicked"
    /\ dropped = 0
    /\ \A p \in DOMAIN writes : writes[p] <= 1
    /\ rpc = "done" => \A p \in DOMAIN writes : writes[p] = 1 /\ color_buffer[p] = rendered(p)

\* the order of the phases of a frame: the loop head, the key tests, then
\* render's entry, spawn loop, joins, pixel writes and return
FrameOrder ==
    {<<"loop", "input">>, <<"input", "entry">>, <<"entry", "spawn">>, <<"spawn", "join">>,
     <<"join", "write">>, <<"write", "done">>, <<"done", "loop">>}

\* C17: in the frame loop the camera and the lights are not modified between
\* the spawn and the join of the workers; every camera.orbit and camera.zoom
\* call of a frame comes before that frame's render begins; a frame runs in
\* the order clear, camera update, render (fork, join, write pixels),
\* swap_buffers; and the light list is never modified once the first frame
\* has started.
C17_FrameOrder ==
    [][/\ lights' = lights
       /\ camera' # camera => (rpc = "input" /\ handles = <<>> /\ rpc' = "entry")
       /\ rpc' # rpc => <<rpc, rpc'>> \in FrameOrder
       /\ color_buffer' # color_buffer => rpc \in {"loop", "write"}]_vars

\* the second frame renders from a camera that the first two frames moved
C17_Witness ==
    /\ frames = 2
    /\ rpc = "join"
    /\ Len(handles) = 2
    /\ camera # 1

\* ========================================================================
\* Properties of cast_ray (SpecShade, SpecShadeLive)
\* ========================================================================
\* the cast_ray invocations other than the primary one
RecursiveCalls == IF calls = 0 THEN 0 ELSE calls - 1

\* C4 as stated: cast_ray invoked at depth 0 returns within max_depth + 1 = 3
\* recursive cast_ray calls.
C4_AtMostThreeRecursiveCalls == RecursiveCalls <= 2 + 1

\* C4, amended: cast_ray invoked at depth 0 terminates; its recursion is at
\* most max_depth + 1 = 3 levels deep (no invocation has a depth above 3 and
\* at most 4 invocations are active at once), and it makes at most
\* 2 + 4 + 8 = 14 recursive calls, one reflection and one refraction call
\* per invocation of depth 0, 1 and 2.
C4_TerminatesWithinCallTree ==
    /\ [](/\ \A i \in 1..Len(stack) : stack[i].depth = i - 1
          /\ Len(stack) <= 2 + 2
          /\ RecursiveCalls <= 2 + 4 + 8)
    /\ <>(spc = "done")

C4_Witness == spc = "done" /\ RecursiveCalls = 14

\* C8: when an invocation took the refraction branch and refract reported
\* total internal reflection, the colour of its refraction branch is zero
\* and the term refraction_color * transparency adds nothing.
C8_TirContributesZero ==
    (returned.depth >= 0 /\ returned.frame.tir)
        => /\ returned.frame.refraction_color = VZero
           /\ VScale(returned.frame.refraction_color,
                     returned.frame.intersect.material.transparency) = VZero

\* the light's contribution with its intensity scaled by keep thousandths
Contribution(log, keep) ==
    [light_intensity |-> Cmul(log.light.intensity, keep),
     diffuse |-> VScale(log.light.color,
                        Cmul(log.diffuse_intensity, Cmul(log.light.intensity, keep))),
     specular |-> VScale(log.light.color,
                         Cmul(log.specular_base, Cmul(log.light.intensity, keep)))]

Contributed(log) ==
    [light_intensity |-> log.light_intensity, diffuse |-> log.diffuse_added,
     specular |-> log.specular_added]

ShadowHitCloser(log) ==
    /\ log.shadow_hit.is_intersecting
    /\ log.shadow_hit.distance # NaN
    /\ log.shadow_hit.distance < log.light_distance

\* C10: the shadow ray of a contributing light starts at the hit point moved
\* 1e-4 along the normal; when the BVH reports a hit closer than the light,
\* the light's diffuse and specular contribution is attenuated by 0.7 (it
\* keeps 1 - 0.7 of its intensity), and otherwise it is not attenuated.
C10_ShadowAttenuation ==
    shadow_log.cast =>
        /\ shadow_log.origin = Along(shadow_log.point, shadow_log.normal, 1)
        /\ shadow_log.diffuse_intensity >= 10
        /\ Contributed(shadow_log) =
              IF ShadowHitCloser(shadow_log) THEN Contribution(shadow_log, Milli - 700)
              ELSE Contribution(shadow_log, Milli)

C10_Witness ==
    /\ shadow_log.cast
    /\ ShadowHitCloser(shadow_log)
    /\ shadow_log.diffuse_added # VZero
    /\ shadow_log.specular_added # VZero

\* C20: an invocation of cast_ray at depth d makes a reflection sub-call
\* exactly when d <= 2, its query hit and the hit material's reflectivity is
\* above 0.05, and a refraction sub-call exactly when d <= 2, its query hit
\* and the transparency is above 0.05; every sub-call runs at depth d + 1; an
\* invocation that misses or whose depth is above 2 makes no sub-call and
\* returns the sky colour of its direction.
C20_SubCallConditions ==
    /\ \A k \in 2..Len(stack) : stack[k].depth = stack[k - 1].depth + 1
    /\ returned.depth >= 0 =>
          LET frame == returned.frame
              hit == frame.queried /\ frame.intersect.is_intersecting
          IN  /\ frame.reflected <=>
                    (frame.depth <= 2 /\ hit /\ frame.intersect.material.reflectivity > 50)
              /\ frame.refracted <=>
                    (frame.depth <= 2 /\ hit /\ frame.intersect.material.transparency > 50)
              /\ (~hit \/ frame.depth > 2) =>
                    /\ ~frame.reflected
                    /\ ~frame.refracted
                    /\ returned.value = procedural_sky(frame.ray_direction, skybox_texture)

\* an invocation at depth 2 that made both sub-calls, each of which ended
\* at the depth test, has returned
C20_Witness ==
    /\ returned.depth = 2
    /\ returned.frame.reflected
    /\ returned.frame.refracted
    /\ calls > 4

\* C22: one primary invocation of cast_ray causes at most 15 invocations in
\* all (1 + 2 + 4 + 8), the depth argument never exceeds 3, at most 4
\* invocations are active at once, and only invocations at depth 0, 1 and 2
\* query the BVH or evaluate the lights.
C22_CallTreeBounds ==
    /\ calls <= 1 + 2 + 4 + 8
    /\ Len(stack) <= 4
    /\ \A k \in 1..Len(stack) :
          /\ stack[k].depth <= 3
          /\ (stack[k].queried \/ stack[k].pc # "enter" \/ stack[k].light > 1) =>
                stack[k].depth <= 2
    /\ returned.depth >= 0 =>
          /\ returned.depth <= 3
          /\ (returned.frame.queried \/ returned.frame.light > 1) => returned.depth <= 2

\* the fifteenth invocation, at depth 3, has returned without a query while
\* its three callers are still active
C22_Witness ==
    /\ calls = 15
    /\ Len(stack) = 3
    /\ returned.depth = 3
    /\ ~returned.frame.queried

\* the scene file exists and holds blank and comment lines only
OnlyBlankOrComment(file) ==
    file[1] = "file" /\ \A k \in 1..Len(file[2]) : file[2][k][1] \in {"blank", "comment"}

\* C21: BVHNode::build returns a tree only for a non-empty index slice; on
\* an empty slice it fails at indices[0] and produces no tree.  main reaches
\* this: when scene.txt exists and holds only blank or comment lines the
\* loader returns Ok with no cube, the default scene is not substituted, main
\* hands the empty index list to build, and no frame is ever rendered.
C21_EmptySceneStopsMain ==
    /\ [][(cpc = "call" /\ cpc' = "done" /\ OnlyBlankOrComment(args)) =>
             (result'.ok /\ cubes' = <<>> /\ indices' = <<>> /\ bpc' = "scene")]_vars
    /\ [][(bpc = "scene" /\ bpc' # bpc) =>
             IF indices = <<>> THEN bpc' = "panicked" /\ bvh' = NoTree
             ELSE bpc' = "built" /\ bvh' # NoTree]_vars
    /\ [](bvh = NoTree => (frames = 0 /\ rpc = "none"))

\* main stopped in build: the loader had returned Ok with no cube
C21_Witness ==
    /\ bpc = "panicked"
    /\ cpc = "done"
    /\ result.ok
    /\ cubes = <<>>
    /\ bvh = NoTree
    /\ frames = 0

\* the primitive the light was generated for
EmissiveCube == cubes[CHOOSE i \in 1..Len(cubes) : cubes[i].material.emission_strength > 0]

\* the shadow ray starts outside the emissive box and reaches it at a ray
\* distance above 0.001
ReachesEmissiveBox ==
    /\ ~Meets(EmissiveCube, ray_origin, ray_direction, 0)
    /\ \E t \in (HitEps + 1)..TMax : EntersAt(EmissiveCube, ray_origin, ray_direction, t)

\* C23: the light main generates for an emissive primitive lies at the
\* centre of its box, so the primitive occludes its own light: for a hit
\* point on another primitive whose shadow-ray origin lies outside the
\* emissive box, at a ray distance above 0.001 from it, cast_shadow toward
\* that light returns 0.7.
C23_EmissiveLightOccluded ==
    /\ bpc # "scene" =>
          /\ lights[1] = center(from_cube(EmissiveCube))
          /\ Meets(EmissiveCube, lights[1], VZero, 0)
    /\ (cpc = "done" /\ args[1].material # lamp /\ ReachesEmissiveBox) => result = 700

====
